---- MODULE Spec2Model ----
(***************************************************************************)
(* A model of the knowsec toolkit: the retry/backoff closures              *)
(* (knowsec/backoff.py), the date shifting utility (knowsec/date_utils.py),*)
(* the Easylog logging wrapper (knowsec/easylog.py), the StockDB access    *)
(* layer (knowsec/database.py), the update script (knowsec/knowsec.py),   *)
(* the AlphaVantage and Barchart data sources (knowsec/dfu.py), the        *)
(* Intrinio2 adapters (knowsec/knowsec2.py, knowsec/intriniov2.py) and the *)
(* Timetrack stopwatch (knowsec/timetrack.py).                             *)
(*                                                                         *)
(* Times of the backoff closures are in milliseconds (Sec == 1000), so     *)
(* that random.randint(0, 1000) / 1000 seconds is an integer.              *)
(***************************************************************************)
EXTENDS Integers, Sequences, FiniteSets, TLC

\* ------------------------------------------------------------------------
\* State
\* ------------------------------------------------------------------------
VARIABLES
    \* backoff.py: one closure returned by one of the three factories
    bk_kind,          \* which factory built the closure
    bk_args,          \* the factory's arguments (max_backoff, initial_wait, step)
    backoff_ntries,   \* the closure's nonlocal retry counter
    bk_ret,           \* the dict returned by the last call
    bk_sleep,         \* argument of time.sleep in the last call, NoSleep if not called
    bk_call,          \* the last call: should_wait and the jitter drawn
    bk_since,         \* history: waiting calls since creation or the last reset
    bk_reset_seen,    \* history: the closure was reset at least once
    \* date_utils.py: one shift there and back
    sh_pc, sh_x, sh_n, sh_unit, sh_first, sh_second,
    \* easylog.py and the logging module it wraps
    lg_inst,          \* the Easylog instances: their private attributes
    lg_loggers,       \* logging.getLogger: logger name -> attached handlers
    lg_hlevel,        \* the handler objects created so far: their levels
    lg_emit,          \* the log_<level> call just made and the handlers that emitted it
    lg_err,           \* the error raised by the last Easylog call, or "none"
    lg_hformat,       \* the formatter of each handler object
    lg_call,          \* history: the set_logformat call just made
    \* database.py: one StockDB and the database behind it
    db_store,         \* committed content of the database: table -> rows
    db_session,       \* the StockDB's session: txn, new, inactive
    db_err,           \* the error raised by the last StockDB call, or "none"
    db_result,        \* the rows the last slice_table returned
    db_op,            \* history: the last StockDB method called
    db_arg,           \* history: its record, records or filters argument
    db_probe,         \* history: the record of the last insert_record of a new key
    db_committed,     \* history: the stored tables at the last commit() of SpecDb
    \* knowsec.py: the update script
    main_pc,          \* where the script is: idle, select, fetch, store, ...
    main_err,         \* the exception that ended the run, or "none"
    main_run,         \* history: runs started
    today,            \* the day of the run
    securities,       \* the securities read at line 159
    existing_securities, \* the prices_log read at line 171
    secpbar,          \* the symbols still to go, the current one first
    start_date,       \* start_date of line 216
    price_data,       \* price_data of line 262
    new_eod_records,  \* new_eod_records
    bckoff_ntries,    \* server errors in a row for the current symbol
    main_window,      \* history: the window chosen for the current symbol
    main_fell,        \* history: the table and the batch of a collision
    main_refresh,     \* history: update_log before the run, tables refreshed
    fetch_calls,      \* history: get_prices calls for the symbol, modulo 2
    main_limit,       \* history: the symbol whose fetch hit the limit
    \* dfu.py: one AlphaVantage and one Barchart instance
    access_log,       \* _access_log of each instance
    req_object,       \* _req_object of each instance
    ds_clock,         \* utcnow; also the number of calls made
    ds_http,          \* history: HTTP requests issued
    ds_call,          \* history: the last call, its arguments and outcome
    ds_hist,          \* history: calls that returned, and the stamp of the last
    \* knowsec2.py, intriniov2.py: a call of a method of Intrinio2
    pg_pc,            \* where the call is: idle, request, execute, flatten, done
    pg_method,        \* the method called
    pg_total,         \* the records the vendor holds
    pg_size,          \* the page size the vendor serves
    pg_kwargs,        \* kwargs['next_page']
    pg_sent,          \* history: the next_page of every request made
    pg_response,      \* the values yielded so far
    pg_result,        \* what the method returns or raises
    \* database.py: the tables of the store
    cat_tables,       \* the names engine.table_names() returns
    cat_call,         \* history: the last call, its table name and outcome
    \* timetrack.py
    tt_clock,         \* dt.datetime.utcnow(), seconds since construction
    tt_ticks,         \* how many times the clock has moved
    tt_time,          \* self.int_time: tag -> made, start, end
    tt_call           \* history: the last call, its tag and outcome

bkvars == <<bk_kind, bk_args, backoff_ntries, bk_ret, bk_sleep, bk_call, bk_since,
           bk_reset_seen>>
shvars == <<sh_pc, sh_x, sh_n, sh_unit, sh_first, sh_second>>
lgvars == <<lg_inst, lg_loggers, lg_hlevel, lg_emit, lg_err, lg_hformat,
           lg_call>>
dbvars == <<db_store, db_session, db_err, db_result, db_op, db_arg, db_probe,
           db_committed>>
mainvars == <<main_pc, main_err, main_run, today, securities,
              existing_securities, secpbar, start_date, price_data,
              new_eod_records, bckoff_ntries, main_window, main_fell,
              main_refresh, fetch_calls, main_limit>>
dsvars == <<access_log, req_object, ds_clock, ds_http, ds_call, ds_hist>>
pgvars == <<pg_pc, pg_method, pg_total, pg_size, pg_kwargs, pg_sent,
            pg_response, pg_result>>
catvars == <<cat_tables, cat_call>>
ttvars == <<tt_clock, tt_ticks, tt_time, tt_call>>
vars == <<bkvars, shvars, lgvars, dbvars, mainvars, dsvars, pgvars, catvars,
          ttvars>>

\* what each component leaves alone
notbk == <<shvars, lgvars, dbvars, mainvars, dsvars, pgvars,
           catvars, ttvars>>
notsh == <<bkvars, lgvars, dbvars, mainvars, dsvars, pgvars,
           catvars, ttvars>>
notlg == <<bkvars, shvars, dbvars, mainvars, dsvars, pgvars,
           catvars, ttvars>>
notdb == <<bkvars, shvars, lgvars, mainvars, dsvars, pgvars,
           catvars, ttvars>>
notdbmain == <<bkvars, shvars, lgvars, dsvars, pgvars,
               catvars, ttvars>>
notds == <<bkvars, shvars, lgvars, dbvars, mainvars, pgvars,
           catvars, ttvars>>
notpg == <<bkvars, shvars, lgvars, dbvars, mainvars, dsvars,
           catvars, ttvars>>
notcat == <<bkvars, shvars, lgvars, dbvars, mainvars, dsvars, pgvars, ttvars>>
nottt == <<bkvars, shvars, lgvars, dbvars, mainvars, dsvars, pgvars, catvars>>

Min(a, b) == IF a <= b THEN a ELSE b

RECURSIVE Pow2(_)
Pow2(n) == IF n = 0 THEN 1 ELSE 2 * Pow2(n - 1)

\* ------------------------------------------------------------------------
\* knowsec/backoff.py
\* ------------------------------------------------------------------------
Sec == 1000
NoSleep == 0 - 1

\* the closure is called at most MaxTries times in a row without a reset
MaxTries == 12

\* random.randint(0, 1000): the jitter in milliseconds
Jitters == {0, 1, 500, 1000}

MaxBackoffs == {1 * Sec, 10 * Sec, 120 * Sec}
InitialWaits == {1 * Sec, 2 * Sec}
Steps == {1 * Sec, 3 * Sec}

NoCall == [made |-> FALSE, should_wait |-> FALSE, jitter |-> 0]
NoRet == [ntries |-> 0, wait_time |-> 0]

\* wait_time = min(2 ** n + randint(0, 1000) / 1000, max_backoff)
exponential_wait_noclamp(n, jitter, max_backoff) == Pow2(n) * Sec + jitter
exponential_wait(n, jitter, max_backoff) ==
    Min(Pow2(n) * Sec + jitter, max_backoff)

\* wait_time = min(initial_wait + (n * step), max_backoff)
linear_wait_offbyone(n, initial_wait, step, max_backoff) ==
    Min(initial_wait + ((n + 1) * step), max_backoff)
linear_wait(n, initial_wait, step, max_backoff) ==
    Min(initial_wait + (n * step), max_backoff)

\* the branch `should_wait is False`: the counter after the reset
reset_ntries_kept(n) == n
reset_ntries(n) == 0

\* exponential_backoff(max_backoff).backoff_fun(should_wait)
exponential_backoff_fun ==
    /\ bk_kind = "exponential"
    /\ \E should_wait \in BOOLEAN, jitter \in Jitters :
        IF ~should_wait
        THEN /\ jitter = 0
             /\ backoff_ntries' = reset_ntries(backoff_ntries)
             /\ bk_ret' = [ntries |-> backoff_ntries', wait_time |-> 0]
             /\ bk_sleep' = NoSleep
             /\ bk_since' = 0
             /\ bk_reset_seen' = TRUE
             /\ bk_call' = [made |-> TRUE, should_wait |-> FALSE, jitter |-> 0]
        ELSE /\ backoff_ntries < MaxTries
             /\ LET wait_time == exponential_wait(backoff_ntries, jitter,
                                                  bk_args.max_backoff)
                IN /\ backoff_ntries' = backoff_ntries + 1
                   /\ bk_sleep' = wait_time
                   /\ bk_ret' = [ntries |-> backoff_ntries',
                                 wait_time |-> wait_time]
             /\ bk_since' = bk_since + 1
             /\ UNCHANGED bk_reset_seen
             /\ bk_call' = [made |-> TRUE, should_wait |-> TRUE,
                            jitter |-> jitter]
    /\ UNCHANGED <<bk_kind, bk_args, notbk>>

\* linear_backoff(max_backoff, initial_wait, step).backoff_fun(should_wait)
linear_backoff_fun ==
    /\ bk_kind = "linear"
    /\ \E should_wait \in BOOLEAN :
        IF ~should_wait
        THEN /\ backoff_ntries' = reset_ntries(backoff_ntries)
             /\ bk_ret' = [ntries |-> backoff_ntries', wait_time |-> 0]
             /\ bk_sleep' = NoSleep
             /\ bk_since' = 0
             /\ bk_reset_seen' = TRUE
             /\ bk_call' = [made |-> TRUE, should_wait |-> FALSE, jitter |-> 0]
        ELSE /\ backoff_ntries < MaxTries
             /\ LET wait_time == linear_wait(backoff_ntries,
                                             bk_args.initial_wait,
                                             bk_args.step,
                                             bk_args.max_backoff)
                IN /\ backoff_ntries' = backoff_ntries + 1
                   /\ bk_sleep' = wait_time
                   /\ bk_ret' = [ntries |-> backoff_ntries',
                                 wait_time |-> wait_time]
             /\ bk_since' = bk_since + 1
             /\ UNCHANGED bk_reset_seen
             /\ bk_call' = [made |-> TRUE, should_wait |-> TRUE, jitter |-> 0]
    /\ UNCHANGED <<bk_kind, bk_args, notbk>>

\* constant_backoff(backoff).backoff_fun(should_wait)
constant_backoff_fun ==
    /\ bk_kind = "constant"
    /\ \E should_wait \in BOOLEAN :
        IF ~should_wait
        THEN /\ backoff_ntries' = reset_ntries(backoff_ntries)
             /\ bk_ret' = [ntries |-> backoff_ntries', wait_time |-> 0]
             /\ bk_sleep' = NoSleep
             /\ bk_since' = 0
             /\ bk_reset_seen' = TRUE
             /\ bk_call' = [made |-> TRUE, should_wait |-> FALSE, jitter |-> 0]
        ELSE /\ backoff_ntries < MaxTries
             /\ LET wait_time == bk_args.backoff
                IN /\ backoff_ntries' = backoff_ntries + 1
                   /\ bk_sleep' = wait_time
                   /\ bk_ret' = [ntries |-> backoff_ntries',
                                 wait_time |-> wait_time]
             /\ bk_since' = bk_since + 1
             /\ UNCHANGED bk_reset_seen
             /\ bk_call' = [made |-> TRUE, should_wait |-> TRUE, jitter |-> 0]
    /\ UNCHANGED <<bk_kind, bk_args, notbk>>

\* the state right after one of the factories returned its closure
BackoffFresh ==
    /\ backoff_ntries = 0
    /\ bk_ret = NoRet
    /\ bk_sleep = NoSleep
    /\ bk_call = NoCall
    /\ bk_since = 0
    /\ bk_reset_seen = FALSE

\* ------------------------------------------------------------------------
\* knowsec/date_utils.py
\* ------------------------------------------------------------------------
\* A datetime.datetime is [type |-> "datetime", t |-> seconds]; a
\* datetime.date is [type |-> "date", t |-> seconds] with t a whole number
\* of days.  Second 0 is the midnight that starts a Monday.
Day == 86400
Hour == 3600
Minute == 60

Weekday(d) == d % 7

\* pandas.tseries.offsets.BDay(n) added to day number d (weekday test only)
BusDayAdd(d, n) ==
    LET wday == Weekday(d)
        weeks == n \div 5
        n1 == IF n <= 0 /\ wday > 4 THEN n + 1 ELSE n
        n2 == n1 - 5 * weeks
        days == IF n2 = 0 /\ wday > 4 THEN 4 - wday
                ELSE IF wday > 4 THEN (7 - wday) + (n2 - 1)
                ELSE IF wday + n2 <= 4 THEN n2
                ELSE n2 + 2
    IN d + 7 * weeks + days

\* date_time + timedelta(seconds = delta): a date uses the days of the
\* timedelta only
AddDelta(x, delta) ==
    IF x.type = "date"
    THEN [type |-> "date", t |-> x.t + (delta \div Day) * Day]
    ELSE [type |-> "datetime", t |-> x.t + delta]

\* date_time - timedelta(seconds = delta)
SubDelta(x, delta) ==
    IF x.type = "date"
    THEN [type |-> "date", t |-> x.t - (delta \div Day) * Day]
    ELSE [type |-> "datetime", t |-> x.t - delta]

\* date_time +/- BDay(n): the time of day is kept
BusDayShift(x, n) ==
    [type |-> x.type,
     t |-> BusDayAdd(x.t \div Day, n) * Day + (x.t % Day)]

ShiftError(e) == [err |-> e, value |-> [type |-> "datetime", t |-> 0]]
ShiftOk(v) == [err |-> "none", value |-> v]

\* the if/elif chain of shift that turns unit and n into a timedelta, in
\* seconds; NoDelta stands for the ValueError of the else branch
NoDelta == 0 - 1
shift_delta(unit, n) ==
    CASE unit = "year" -> 365 * n * Day
      [] unit = "day" -> n * Day
      [] unit = " week" -> 7 * n * Day
      [] unit = "month" -> 30 * n * Day
      [] unit = "quarter" -> 90 * n * Day
      [] unit = "minute" -> n * Minute
      [] unit = "second" -> n
      [] unit = "hour" -> n * Hour
      [] OTHER -> NoDelta

\* shift(date_time, n, unit, shift_backwards)
shift(date_time, n, unit, shift_backwards) ==
    IF unit = "busday"
    THEN IF shift_backwards
         THEN ShiftOk(BusDayShift(date_time, 0 - n))
         ELSE ShiftOk(BusDayShift(date_time, n))
    ELSE IF shift_delta(unit, n) = NoDelta
    THEN ShiftError("ValueError")
    ELSE IF shift_backwards
         THEN ShiftOk(SubDelta(date_time, shift_delta(unit, n)))
         ELSE ShiftOk(AddDelta(date_time, shift_delta(unit, n)))

\* lag(date_time, n, unit) and lead(date_time, n, unit)
lag(date_time, n, unit) == shift(date_time, n, unit, TRUE)
lead(date_time, n, unit) == shift(date_time, n, unit, FALSE)

\* the largest n shifted by
MaxShiftN == 3

ShiftUnits == {"day", "week", "year", "quarter", "month", "minute", "second",
               "hour"}
OtherUnits == {"busday", " week", "fortnight"}

ShiftInputs ==
    {[type |-> "datetime", t |-> 0],
     [type |-> "datetime", t |-> 4 * Day + 13 * Hour + 46 * Minute + 40],
     [type |-> "datetime", t |-> 5 * Day + 23 * Hour + 59 * Minute + 59],
     [type |-> "datetime", t |-> 400 * Day + 1],
     [type |-> "date", t |-> 3 * Day],
     [type |-> "date", t |-> 6 * Day]}

\* shift(x, n, unit, shift_backwards=True)
ShiftBack ==
    /\ sh_pc = "start"
    /\ sh_first' = shift(sh_x, sh_n, sh_unit, TRUE)
    /\ sh_pc' = IF sh_first'.err = "none" THEN "back" ELSE "raised"
    /\ UNCHANGED <<sh_x, sh_n, sh_unit, sh_second, notsh>>

\* shift(<the result>, n, unit, shift_backwards=False)
ShiftForth ==
    /\ sh_pc = "back"
    /\ sh_second' = shift(sh_first.value, sh_n, sh_unit, FALSE)
    /\ sh_pc' = IF sh_second'.err = "none" THEN "done" ELSE "raised"
    /\ UNCHANGED <<sh_x, sh_n, sh_unit, sh_first, notsh>>

\* ------------------------------------------------------------------------
\* knowsec/easylog.py
\* ------------------------------------------------------------------------
\* A handler name is a pair <<stem, k>> that stands for the string
\* stem + str(k): <<"console", 0>> is 'console0'.

\* handler objects created in one run
MaxHandlers == 2

Instances == {1, 2}
LoggerNames == {"easylog", "app"}
LogTypes == {"file", "console", "stream"}
GlobalLevels == {"info", "error"}
LogLevels == {"critical"}
ExplicitNames == {<<"console", 0>>}
None == "None"
\* logname=None
NoName == <<>>

CRITICAL == 50
ERROR == 40
WARNING == 30
INFO == 20
DEBUG == 10

_string2loglevel(loglevel) ==
    CASE loglevel = "critical" -> CRITICAL
      [] loglevel = "error" -> ERROR
      [] loglevel = "warning" -> WARNING
      [] loglevel = "info" -> INFO
      [] loglevel = "debug" -> DEBUG

\* the level of the logging.Logger itself, set in __init__
LoggerLevel == DEBUG

NoInstance ==
    [created |-> FALSE, loggername |-> "easylog", globallevel |-> INFO,
     namecounters |-> [t \in LogTypes |-> 0], handlers |-> <<>>]

NoEmit == [made |-> FALSE, inst |-> 1, levelno |-> 0, by |-> <<>>]

\* logging.Formatter(_default_log_format(logtype), dateformat)
DefaultFormat == "default"

\* the fmt given to set_logformat
Formats == {"%(message)s"}

\* the handlername given to set_logformat: 'console0', 'file0'
HandlerNames == {<<"console", 0>>, <<"file", 0>>}

NoFormatCall == [made |-> FALSE, inst |-> 1, handlername |-> <<>>, fmt |-> ""]

\* _get_handler_names
_get_handler_names(inst) ==
    {inst.handlers[k].name : k \in 1..Len(inst.handlers)}

\* Handler.handle: the handler's own level decides
handler_emits_always(h, levelno) == TRUE
handler_emits(h, levelno) == levelno >= lg_hlevel[h]

\* Logger.<level>(msg): the handlers attached to the logger that emit the
\* record, in order
RECURSIVE EmittedBy(_, _)
EmittedBy(hs, levelno) ==
    IF hs = <<>> THEN <<>>
    ELSE IF handler_emits(Head(hs), levelno)
         THEN <<Head(hs)>> \o EmittedBy(Tail(hs), levelno)
         ELSE EmittedBy(Tail(hs), levelno)

\* _log_controls followed by _add_logger, for the instance record inst
\* bound to logger name ln; loggers is the registry to extend
AddLogger(i, inst, loggers, logtype, logname, loglevel) ==
    IF logname # NoName /\ logname \in _get_handler_names(inst)
    THEN /\ lg_err' = "ValueError"
         /\ lg_inst' = [lg_inst EXCEPT ![i] = inst]
         /\ lg_loggers' = loggers
         /\ UNCHANGED <<lg_hlevel, lg_hformat>>
    ELSE LET name == IF logname = NoName
                     THEN <<logtype, inst.namecounters[logtype]>>
                     ELSE logname
             counters == IF logname = NoName
                         THEN [inst.namecounters EXCEPT ![logtype] = @ + 1]
                         ELSE inst.namecounters
             level == IF loglevel = None THEN inst.globallevel
                      ELSE _string2loglevel(loglevel)
             h == Len(lg_hlevel) + 1
             log_rec == [handler |-> h, name |-> name,
                         loggertype |-> logtype, loglevel |-> level]
         IN /\ lg_hlevel' = Append(lg_hlevel, level)
            /\ lg_hformat' = Append(lg_hformat, DefaultFormat)
            /\ lg_loggers' = [loggers EXCEPT ![inst.loggername] =
                                  Append(@, h)]
            /\ lg_inst' = [lg_inst EXCEPT ![i] =
                              [inst EXCEPT !.namecounters = counters,
                                           !.handlers = Append(@, log_rec)]]
            /\ lg_err' = "none"

\* Easylog(loggername, globallevel, create_console)
Easylog_init ==
    \E i \in Instances, loggername \in {"app", None},
       globallevel \in GlobalLevels, create_console \in BOOLEAN :
        /\ ~lg_inst[i].created
        /\ LET inst == [created |-> TRUE,
                        loggername |-> IF loggername = None THEN "easylog"
                                       ELSE loggername,
                        globallevel |-> _string2loglevel(globallevel),
                        namecounters |-> [t \in LogTypes |-> 0],
                        handlers |-> <<>>]
           IN IF create_console
              THEN /\ Len(lg_hlevel) < MaxHandlers
                   /\ AddLogger(i, inst, lg_loggers, "console", NoName, None)
              ELSE /\ lg_inst' = [lg_inst EXCEPT ![i] = inst]
                   /\ lg_err' = "none"
                   /\ UNCHANGED <<lg_loggers, lg_hlevel, lg_hformat>>
        /\ lg_emit' = NoEmit
        /\ lg_call' = NoFormatCall
        /\ UNCHANGED notlg

add_consolelogger ==
    \E i \in Instances, logname \in ExplicitNames \cup {NoName},
       loglevel \in LogLevels \cup {None} :
        /\ lg_inst[i].created
        /\ Len(lg_hlevel) < MaxHandlers
        /\ AddLogger(i, lg_inst[i], lg_loggers, "console", logname, loglevel)
        /\ lg_emit' = NoEmit
        /\ lg_call' = NoFormatCall
        /\ UNCHANGED notlg

add_streamlogger ==
    \E i \in Instances, logname \in {NoName}, loglevel \in {None} :
        /\ lg_inst[i].created
        /\ Len(lg_hlevel) < MaxHandlers
        /\ AddLogger(i, lg_inst[i], lg_loggers, "stream", logname, loglevel)
        /\ lg_emit' = NoEmit
        /\ lg_call' = NoFormatCall
        /\ UNCHANGED notlg

add_filelogger ==
    \E i \in Instances, logname \in {NoName}, loglevel \in {None} :
        /\ lg_inst[i].created
        /\ Len(lg_hlevel) < MaxHandlers
        /\ AddLogger(i, lg_inst[i], lg_loggers, "file", logname, loglevel)
        /\ lg_emit' = NoEmit
        /\ lg_call' = NoFormatCall
        /\ UNCHANGED notlg

\* self._logger.<level>(msg)
LogAt(i, levelno) ==
    /\ lg_inst[i].created
    /\ lg_emit' = [made |-> TRUE, inst |-> i, levelno |-> levelno,
                   by |-> IF levelno >= LoggerLevel
                          THEN EmittedBy(lg_loggers[lg_inst[i].loggername],
                                         levelno)
                          ELSE <<>>]
    /\ lg_err' = "none"
    /\ lg_call' = NoFormatCall
    /\ UNCHANGED <<lg_inst, lg_loggers, lg_hlevel, lg_hformat, notlg>>

log_critical == \E i \in Instances : LogAt(i, CRITICAL)
log_error == \E i \in Instances : LogAt(i, ERROR)
log_warning == \E i \in Instances : LogAt(i, WARNING)
log_info == \E i \in Instances : LogAt(i, INFO)
log_debug == \E i \in Instances : LogAt(i, DEBUG)

\* the handlers of inst that have the name, in order
RECURSIVE handler_records(_, _)
handler_records(handlers, handlername) ==
    IF handlers = <<>> THEN <<>>
    ELSE (IF Head(handlers).name = handlername THEN <<Head(handlers)>>
          ELSE <<>>) \o handler_records(Tail(handlers), handlername)

\* the exception set_logformat ends with: lines 289-308
set_logformat_raises(inst, handlername) ==
    IF inst.handlers # <<>> THEN "NoDefinedHandlersError"
    ELSE IF handler_records(inst.handlers, handlername) # <<>>
    THEN "NoHandlersFoundError"
    ELSE IF Len(handler_records(inst.handlers, handlername)) = 0
    THEN "IndexError"
    ELSE "TypeError"

\* Easylog.set_logformat(handlername, fmt): every path ends in a raise
\* before setFormatter is reached
set_logformat ==
    \E i \in Instances, handlername \in HandlerNames, fmt \in Formats :
        /\ lg_inst[i].created
        /\ lg_err' = set_logformat_raises(lg_inst[i], handlername)
        /\ lg_call' = [made |-> TRUE, inst |-> i,
                       handlername |-> handlername, fmt |-> fmt]
        /\ lg_emit' = NoEmit
        /\ UNCHANGED <<lg_inst, lg_loggers, lg_hlevel, lg_hformat, notlg>>

\* ------------------------------------------------------------------------
\* knowsec/database.py
\* ------------------------------------------------------------------------
\* db_store is what the database server holds committed, table by table.
\* db_session is the StockDB's one SQLAlchemy session (_dbsession): txn is
\* the content its open transaction sees (committed rows plus the statements
\* it has emitted), new the objects given to session.add and not yet
\* flushed, inactive whether a failed flush left the transaction waiting for
\* rollback().  Reads and writes that go through the engine (_dbengine)
\* use a connection of their own in autocommit: they see and change
\* db_store only.
\* A row is a record over the columns of its table; NULL is an unset column.
NULL == 0 - 1

Tables ==
    {"securities", "exchanges", "security_prices", "prices_log",
     "update_log"}

\* the declared mappings: primary-key columns
table_keys(tablename) ==
    CASE tablename = "securities" -> {"symbol", "figi", "exchange"}
      [] tablename = "security_prices" -> {"symbol", "exchange", "date"}
      [] tablename = "prices_log" -> {"symbol"}
      [] tablename = "exchanges" -> {"symbol", "mic"}
      [] tablename = "update_log" -> {"table", "update_dt", "update_type"}

\* the declared mappings: all columns (the price columns other than close
\* and the descriptive columns of securities are left out)
table_columns(tablename) ==
    CASE tablename = "securities" -> {"symbol", "figi", "exchange"}
      [] tablename = "security_prices" ->
             {"symbol", "exchange", "date", "close"}
      [] tablename = "prices_log" ->
             {"symbol", "min_date", "max_date", "update_dt", "check_dt"}
      [] tablename = "exchanges" -> {"symbol", "mic"}
      [] tablename = "update_log" ->
             {"table", "update_dt", "update_type", "new_records"}

\* table_class(**record): the row object, unset columns NULL
RowOf(tablename, record) ==
    [c \in table_columns(tablename) |->
        IF c \in DOMAIN record THEN record[c] ELSE NULL]

KeyOf(tablename, row) == [c \in table_keys(tablename) |-> row[c]]

KeysOf(tablename, rows) == {KeyOf(tablename, r) : r \in rows}

\* what a call returns: None, or a DataFrame of rows
Absent == [none |-> TRUE, rows |-> {}]
Frame(rows) == [none |-> FALSE, rows |-> rows]

EmptySession(store) == [txn |-> store, new |-> <<>>, inactive |-> FALSE]

DbReturn(store, session, err, result) ==
    [store |-> store, session |-> session, err |-> err, result |-> result]

\* an INSERT of rows (in order) into the rows a connection sees; a
\* duplicate primary key fails the statement
RECURSIVE InsertRows(_, _, _)
InsertRows(tablename, seen, rows) ==
    IF rows = <<>> THEN [ok |-> TRUE, rows |-> seen]
    ELSE IF KeyOf(tablename, Head(rows)) \in KeysOf(tablename, seen)
         THEN [ok |-> FALSE, rows |-> seen]
         ELSE InsertRows(tablename, seen \cup {Head(rows)}, Tail(rows))

\* Session.flush: INSERT the pending objects in the session's transaction
RECURSIVE SessionFlush(_, _)
SessionFlush(txn, new) ==
    IF new = <<>> THEN [ok |-> TRUE, txn |-> txn]
    ELSE LET t == Head(new)[1]
             ins == InsertRows(t, txn[t], <<Head(new)[2]>>)
         IN IF ins.ok
            THEN SessionFlush([txn EXCEPT ![t] = ins.rows], Tail(new))
            ELSE [ok |-> FALSE, txn |-> txn]

\* StockDB.commit: flush, then COMMIT; a failed flush rolls the transaction
\* back and raises
commit_nothing(store, session) == DbReturn(store, session, "none", Absent)
commit(store, session) ==
    IF session.inactive
    THEN DbReturn(store, session, "InvalidRequestError", Absent)
    ELSE LET f == SessionFlush(session.txn, session.new)
         IN IF f.ok
            THEN DbReturn(f.txn, EmptySession(f.txn), "none", Absent)
            ELSE DbReturn(store, EmptySession(store), "IntegrityError", Absent)

\* StockDB.rollback
rollback_kept(store, session) == DbReturn(store, session, "none", Absent)
rollback(store, session) ==
    DbReturn(store, EmptySession(store), "none", Absent)

\* DataFrame.to_sql(tablename, engine, if_exists='append'): one INSERT
\* through the engine, committed at once
ToSql(store, session, tablename, rows) ==
    LET ins == InsertRows(tablename, store[tablename], rows)
    IN IF ins.ok
       THEN DbReturn([store EXCEPT ![tablename] = ins.rows],
                     [session EXCEPT !.txn[tablename] =
                          @ \cup {rows[k] : k \in 1..Len(rows)}],
                     "none", Absent)
       ELSE DbReturn(store, session, "IntegrityError", Absent)

\* an argument is [type |-> "dict", rows |-> <<record>>],
\* [type |-> "list", rows |-> <<record, ...>>],
\* [type |-> "DataFrame", rows |-> <<record, ...>>] or
\* [type |-> "other", rows |-> <<>>]

\* StockDB.insert_record(tablename, record)
insert_record(store, session, tablename, record) ==
    CASE record.type = "dict" ->
             DbReturn(store,
                      [session EXCEPT !.new =
                           Append(@, <<tablename,
                                       RowOf(tablename, record.rows[1])>>)],
                      "none", Absent)
      [] record.type = "DataFrame" ->
             ToSql(store, session, tablename,
                   [k \in 1..Len(record.rows) |->
                        RowOf(tablename, record.rows[k])])
      [] OTHER -> DbReturn(store, session, "TypeError", Absent)

\* StockDB.bulk_insert_records(tablename, records)
bulk_insert_records(store, session, tablename, records) ==
    CASE records.type = "list" ->
             IF session.inactive
             THEN DbReturn(store, session, "InvalidRequestError", Absent)
             ELSE LET ins == InsertRows(tablename, session.txn[tablename],
                                        [k \in 1..Len(records.rows) |->
                                             RowOf(tablename,
                                                   records.rows[k])])
                  IN IF ins.ok
                     THEN DbReturn(store,
                                   [session EXCEPT !.txn[tablename] =
                                        ins.rows],
                                   "none", Absent)
                     ELSE DbReturn(store,
                                   [txn |-> store, new |-> <<>>,
                                    inactive |-> TRUE],
                                   "IntegrityError", Absent)
      [] records.type = "DataFrame" ->
             ToSql(store, session, tablename,
                   [k \in 1..Len(records.rows) |->
                        RowOf(tablename, records.rows[k])])
      [] OTHER -> DbReturn(store, session, "none", Absent)

\* StockDB.clear_table: DELETE in the session's transaction
clear_table(store, session, tablename) ==
    IF session.inactive
    THEN DbReturn(store, session, "InvalidRequestError", Absent)
    ELSE LET f == SessionFlush(session.txn, session.new)
         IN IF ~f.ok
            THEN DbReturn(store,
                          [txn |-> store, new |-> <<>>, inactive |-> TRUE],
                          "IntegrityError", Absent)
            ELSE DbReturn(store,
                          [txn |-> [f.txn EXCEPT ![tablename] = {}],
                           new |-> <<>>, inactive |-> FALSE],
                          "none", Absent)

\* StockDB.replace_table(tablename, records): clear_table(tablename), then
\* bulk_insert_records(records), a call with one argument for the two
\* parameters tablename and records, which Python refuses with TypeError
replace_table(store, session, tablename, records) ==
    LET c == clear_table(store, session, tablename)
    IN IF c.err # "none" THEN c
       ELSE DbReturn(c.store, c.session, "TypeError", Absent)

\* update_record: all([i in record.keys() for i in table_keys])
has_all_keys_unchecked(tablename, record) == TRUE
has_all_keys(tablename, record) ==
    \A i \in table_keys(tablename) : i \in DOMAIN record

\* UPDATE ... SET record_insert WHERE every primary key = record[pkey]
UpdateRows(tablename, rows, record) ==
    LET pkeys == table_keys(tablename) \cap DOMAIN record
        hit(r) == \A pkey \in pkeys : r[pkey] = record[pkey]
        upd(r) == [c \in DOMAIN r |->
                      IF c \in DOMAIN record /\ c \notin pkeys
                      THEN record[c] ELSE r[c]]
    IN {IF hit(r) THEN upd(r) ELSE r : r \in rows}

\* StockDB.update_record(tablename, record)
update_record(store, session, tablename, record) ==
    IF ~has_all_keys(tablename, record)
    THEN DbReturn(store, session, "KeyError", Absent)
    ELSE IF session.inactive
    THEN DbReturn(store, session, "InvalidRequestError", Absent)
    ELSE LET f == SessionFlush(session.txn, session.new)
         IN IF ~f.ok
            THEN DbReturn(store,
                          [txn |-> store, new |-> <<>>, inactive |-> TRUE],
                          "IntegrityError", Absent)
            ELSE DbReturn(store,
                          [txn |-> [f.txn EXCEPT ![tablename] =
                                        UpdateRows(tablename, @, record)],
                           new |-> <<>>, inactive |-> FALSE],
                          "none", Absent)

\* A filter dict maps a column to [coll |-> whether the value is a set,
\* list or tuple, elems |-> the value(s)]: == for a scalar, IN for a
\* collection.  filters is [type |-> "None" | "dict" | "list", dicts |-> <<>>]
\* a mapping read as "any column test passes" instead of "all pass"
criteria_any(row, dict) ==
    \E col_name \in DOMAIN dict : row[col_name] \in dict[col_name].elems
Criteria(row, dict) ==
    \A col_name \in DOMAIN dict : row[col_name] \in dict[col_name].elems

FilterMatches(row, filters) ==
    CASE filters.type = "None" -> TRUE
      [] filters.type = "dict" -> Criteria(row, filters.dicts[1])
      [] OTHER -> \E k \in 1..Len(filters.dicts) :
                      Criteria(row, filters.dicts[k])

\* StockDB.slice_table(tablename, filters=filters): read through the
\* engine, not the session
slice_table_in_session(store, session, tablename, filters) ==
    LET f == SessionFlush(session.txn, session.new)
        result_pd == {r \in f.txn[tablename] : FilterMatches(r, filters)}
    IN DbReturn(store, session, "none",
                IF result_pd = {} THEN Absent ELSE Frame(result_pd))
slice_table(store, session, tablename, filters) ==
    LET result_pd == {r \in store[tablename] : FilterMatches(r, filters)}
    IN DbReturn(store, session, "none",
                IF result_pd = {} THEN Absent ELSE Frame(result_pd))

\* ---- the calls a user of StockDB makes, one table, a few records ----

\* session.add calls left unflushed at a time
MaxPending == 2

ApiTable == "security_prices"
ApiDates == {3, 4}
ApiCloses == {1, 2}

\* records for insert_record: two prices for one day, and a record without
\* close for another
ApiRecords ==
    {[symbol |-> "AMD", exchange |-> "NASDAQ", date |-> 3, close |-> c] :
         c \in ApiCloses}
    \cup {[symbol |-> "AMD", exchange |-> "NASDAQ", date |-> 4]}

\* records for update_record: with every primary key, without date, without
\* exchange and date
ApiUpdates ==
    {[symbol |-> "AMD", exchange |-> "NASDAQ", date |-> d, close |-> 9] :
         d \in ApiDates}
    \cup {[symbol |-> "AMD", exchange |-> "NASDAQ", close |-> 9],
          [symbol |-> "AMD", close |-> 9]}

ApiLists ==
    {<<r>> : r \in ApiRecords}
    \cup {<<r1, r2>> : r1 \in {r \in ApiRecords : r.date = 3 /\ r.close = 1},
                       r2 \in {r \in ApiRecords : r.date = 4}}

\* filters = {every primary-key column: the value row has}
PkFilter(tablename, row) ==
    [type |-> "dict",
     dicts |-> <<[c \in table_keys(tablename) |->
                     [coll |-> FALSE, elems |-> {row[c]}]]>>]

NoFilter == [type |-> "None", dicts |-> <<>>]

\* {'date': [3, 4], 'close': 1}: a collection and a scalar in one mapping
InFilter ==
    [type |-> "dict",
     dicts |-> <<[date |-> [coll |-> TRUE, elems |-> ApiDates],
                  close |-> [coll |-> FALSE, elems |-> {1}]]>>]

\* [{'date': 3, 'close': 2}, {'date': [4]}]: a list of mappings
OrFilter ==
    [type |-> "list",
     dicts |-> <<[date |-> [coll |-> FALSE, elems |-> {3}],
                  close |-> [coll |-> FALSE, elems |-> {2}]],
                 [date |-> [coll |-> TRUE, elems |-> {4}]]>>]

ApiFilters ==
    {NoFilter, InFilter, OrFilter}
    \cup {PkFilter(ApiTable, RowOf(ApiTable, r)) : r \in ApiRecords}

NoProbe == [stage |-> "none", row |-> RowOf(ApiTable, <<>>)]

\* take over what a StockDB method returned
DbApply(ret) ==
    /\ db_store' = ret.store
    /\ db_session' = ret.session
    /\ db_err' = ret.err
    /\ db_result' = ret.result

ApiInsertRecord ==
    \E record \in ApiRecords :
        /\ Len(db_session.new) < MaxPending
        /\ DbApply(insert_record(db_store, db_session, ApiTable,
                                 [type |-> "dict", rows |-> <<record>>]))
        /\ db_op' = "insert_record"
        /\ db_arg' = record
        /\ db_probe' =
               LET row == RowOf(ApiTable, record)
                   k == KeyOf(ApiTable, row)
               IN IF /\ k \notin KeysOf(ApiTable, db_store[ApiTable])
                     /\ k \notin KeysOf(ApiTable, db_session.txn[ApiTable])
                  THEN [stage |-> "inserted", row |-> row]
                  ELSE NoProbe
        /\ UNCHANGED <<db_committed, notdb>>

ApiInsertOther ==
    /\ DbApply(insert_record(db_store, db_session, ApiTable,
                             [type |-> "other", rows |-> <<>>]))
    /\ db_op' = "insert_record"
    /\ db_arg' = <<>>
    /\ db_probe' = NoProbe
    /\ UNCHANGED <<db_committed, notdb>>

ApiBulkInsertRecords ==
    \E records \in ApiLists :
        /\ DbApply(bulk_insert_records(db_store, db_session, ApiTable,
                                       [type |-> "list", rows |-> records]))
        /\ db_op' = "bulk_insert_records"
        /\ db_arg' = records
        /\ db_probe' = NoProbe
        /\ UNCHANGED <<db_committed, notdb>>

\* bulk_insert_records(name, records) with records such as a dict or a
\* string: neither a list nor a DataFrame
ApiBulkInsertOther ==
    /\ DbApply(bulk_insert_records(db_store, db_session, ApiTable,
                                   [type |-> "other", rows |-> <<>>]))
    /\ db_op' = "bulk_insert_records"
    /\ db_arg' = <<>>
    /\ db_probe' = NoProbe
    /\ UNCHANGED <<db_committed, notdb>>

\* a DataFrame of one record, indexed on the primary key
ApiFrames ==
    {<<[symbol |-> "AMD", exchange |-> "NASDAQ", date |-> 4, close |-> 1]>>}

\* insert_record(name, frame) and bulk_insert_records(name, frame)
ApiInsertFrame ==
    \E frame \in ApiFrames, method \in {"insert_record", "bulk_insert_records"} :
        /\ DbApply(IF method = "insert_record"
                   THEN insert_record(db_store, db_session, ApiTable,
                                      [type |-> "DataFrame", rows |-> frame])
                   ELSE bulk_insert_records(db_store, db_session, ApiTable,
                                            [type |-> "DataFrame",
                                             rows |-> frame]))
        /\ db_op' = method
        /\ db_arg' = [type |-> "DataFrame", rows |-> frame]
        /\ db_probe' = NoProbe
        /\ UNCHANGED <<db_committed, notdb>>

ApiUpdateRecord ==
    \E record \in ApiUpdates :
        /\ DbApply(update_record(db_store, db_session, ApiTable, record))
        /\ db_op' = "update_record"
        /\ db_arg' = record
        /\ db_probe' = NoProbe
        /\ UNCHANGED <<db_committed, notdb>>

ApiCommit ==
    /\ DbApply(commit(db_store, db_session))
    /\ db_op' = "commit"
    /\ db_arg' = <<>>
    /\ db_probe' = IF db_probe.stage = "inserted" /\ db_err' = "none"
                   THEN [db_probe EXCEPT !.stage = "committed"]
                   ELSE NoProbe
    /\ db_committed' = IF db_err' = "none" THEN db_store' ELSE db_committed
    /\ UNCHANGED notdb

ApiRollback ==
    /\ DbApply(rollback(db_store, db_session))
    /\ db_op' = "rollback"
    /\ db_arg' = <<>>
    /\ db_probe' = NoProbe
    /\ UNCHANGED <<db_committed, notdb>>

\* records for replace_table: one record, two records
ReplaceLists ==
    {<<[symbol |-> "AMD", exchange |-> "NASDAQ", date |-> 3, close |-> 1]>>,
     <<[symbol |-> "AMD", exchange |-> "NASDAQ", date |-> 3, close |-> 1],
       [symbol |-> "AMD", exchange |-> "NASDAQ", date |-> 4, close |-> 1]>>}

ApiReplaceTable ==
    \E records \in ReplaceLists :
        /\ DbApply(replace_table(db_store, db_session, ApiTable,
                                 [type |-> "list", rows |-> records]))
        /\ db_op' = "replace_table"
        /\ db_arg' = records
        /\ db_probe' = NoProbe
        /\ UNCHANGED <<db_committed, notdb>>

ApiSliceTable ==
    \E filters \in ApiFilters :
        /\ DbApply(slice_table(db_store, db_session, ApiTable, filters))
        /\ db_op' = "slice_table"
        /\ db_arg' = filters
        /\ UNCHANGED <<db_probe, db_committed, notdb>>

\* ------------------------------------------------------------------------
\* knowsec.py: the update script.  A run is one execution of the module:
\* the module-level set-up (lines 19-41), then main() (lines 55-373).
\* ------------------------------------------------------------------------
\* Dates are day numbers: day 0 is Monday 2018-07-30, so dt.date(2018, 8, 1)
\* is day 2.  Timestamps (check_dt, update_dt) are taken as the day of the
\* run.  The database connection does not fail (no OperationalError); the
\* vendor adapter (dfu.Intrinio) and backoff.jittered_backoff are not part
\* of the sources and are modelled from their description: get_prices
\* returns the rows of the business days of the window asked for, or None,
\* or raises its limit or server error.

\* the latest day a run can take place on
MaxDay == 9

\* executions of the script
MaxRuns == 2

\* server errors the vendor raises in a row for one ticker
MaxServerErrors == 1

\* dt.date(2018, 8, 1)
Cutoff == 2

Symbols == <<"AMD", "IBM">>

\* the securities the vendor lists
Listing ==
    {[symbol |-> Symbols[k], figi |-> k, exchange |-> "NASDAQ"] :
         k \in 1..Len(Symbols)}

\* max_date of the prices_log rows the database starts with
LogDates == {1, 3}

Closes == {1, 2}

Unbound == [state |-> "unbound", rows |-> <<>>]
NoData == [state |-> "None", rows |-> <<>>]

NoWindow == [made |-> FALSE, symbol |-> "", fetch |-> FALSE,
             start |-> 0, end |-> 0]

NoFallback == [done |-> FALSE, before |-> {}, batch |-> <<>>]

\* last_day = today - bus_day(n=1)
last_day == BusDayAdd(today, 0 - 1)

\* the business days of [start, end], in order
RECURSIVE BusinessDays(_, _)
BusinessDays(start, end) ==
    IF start > end THEN <<>>
    ELSE (IF Weekday(start) <= 4 THEN <<start>> ELSE <<>>)
             \o BusinessDays(start + 1, end)

\* DSOURCE.get_prices(symbol, start, end) when the vendor has data
get_prices(symbol, start, end, close) ==
    LET days == BusinessDays(start, end)
    IN [state |-> "frame",
        rows |-> [k \in 1..Len(days) |->
                     [symbol |-> symbol, date |-> days[k], close |-> close]]]

\* a set of rows as a list, in the order of Symbols
RECURSIVE ListingOrder(_, _)
ListingOrder(rows, k) ==
    IF k > Len(Symbols) THEN <<>>
    ELSE LET here == {r \in rows : r.symbol = Symbols[k]}
         IN (IF here = {} THEN <<>> ELSE <<CHOOSE r \in here : TRUE>>)
                \o ListingOrder(rows, k + 1)

\* tables_to_update
tables_to_update == <<"exchanges", "securities">>

\* the exchanges the vendor lists
ExchangeListing == {[symbol |-> "NASDAQ", mic |-> "XNAS"]}

\* newdata: the vendor's records for a_table
newdata(a_table) ==
    IF a_table = "exchanges"
    THEN <<CHOOSE r \in ExchangeListing : TRUE>>
    ELSE ListingOrder(Listing, 1)

\* the rows retrieve_record('update_log', {'table': a_table,
\* 'update_type': 'full'}) returns
full_entries(store, a_table) ==
    {r \in store["update_log"] :
         r.table = a_table /\ r.update_type = "full"}

\* current_update_rec.reset_index().iloc[[0]]['update_dt']: the update_dt of
\* the row the query returns first.  The query has no ORDER BY, so any of
\* the rows can come first; NULL stands for current_update_rec is None.
first_update_dt(store, a_table) ==
    IF full_entries(store, a_table) = {} THEN {NULL}
    ELSE {r.update_dt : r \in full_entries(store, a_table)}

\* lines 71-86: should_update for the update_dt read (timestamps are days)
should_update(udt, now) ==
    IF udt # NULL THEN (now - udt) * Day > 604800 ELSE TRUE

\* line 122: DBASE.commit()
refresh_commit(i) ==
    IF i.err = "none" THEN commit(i.store, i.session) ELSE i

\* lines 110-120: insert_record of the update_log row
refresh_log(b, a_table, now) ==
    IF b.err # "none" THEN b
    ELSE insert_record(b.store, b.session, "update_log",
                       [type |-> "dict",
                        rows |-> <<[table |-> a_table, update_dt |-> now,
                                    update_type |-> "full",
                                    new_records |-> Len(newdata(a_table))]>>])

\* line 108: bulk_insert_records of the vendor's records
refresh_insert(c, a_table) ==
    IF c.err # "none" THEN c
    ELSE bulk_insert_records(c.store, c.session, a_table,
                             [type |-> "list", rows |-> newdata(a_table)])

\* lines 88-122 for a_table when its refresh is due: clear_table,
\* bulk_insert_records of the vendor's records, insert_record of the
\* update_log row, commit
refresh_table(store, session, a_table, now) ==
    refresh_commit(
        refresh_log(
            refresh_insert(clear_table(store, session, a_table), a_table),
            a_table, now))

\* one iteration of the loop of lines 65-122
refresh_step(acc, a_table, udt, now) ==
    IF acc.err # "none" \/ ~should_update(udt, now) THEN acc
    ELSE refresh_table(acc.store, acc.session, a_table, now)

NoRefresh == [log |-> {}, done |-> {}]

NoLimit == [hit |-> FALSE, symbol |-> "", store |-> [t \in Tables |-> {}]]

\* existing_securities.loc[IDX[[symbol]], :]
LogRowsOf(cache, symbol) == {r \in cache.rows : r.symbol = symbol}

\* the if/elif chain of lines 220-258 on start_date
window_branch(start, last) ==
    IF start >= last THEN "current"
    ELSE IF start <= Cutoff THEN "cutoff"
    ELSE IF start = last THEN "exchange_prices"
    ELSE IF start < last THEN "download"
    ELSE "none"

\* exchange_prices.loc[IDX[symbol], :].iloc[[1]]: a price of the last
\* business day
exchange_prices(symbol) == [symbol |-> symbol, date |-> last_day, close |-> 1]

\* exchs = [i[1] for i in sec_entry]
exchs(symbol) == {r.exchange : r \in {s \in securities : s.symbol = symbol}}

\* for the_exchange in exchs: for record in new_eod_records:
\*     record['exchange'] = the_exchange
with_exchange(records, the_exchange) ==
    [k \in 1..Len(records) |->
        [symbol |-> records[k].symbol, exchange |-> the_exchange,
         date |-> records[k].date, close |-> records[k].close]]

\* the end of an iteration of the loop over secpbar
NextSymbol ==
    /\ secpbar' = Tail(secpbar)
    /\ main_pc' = IF Tail(secpbar) = <<>> THEN "done" ELSE "select"

Crash(e) ==
    /\ main_pc' = "crashed"
    /\ main_err' = e

\* lines 19-177: module set-up and main() up to the loop over the symbols
MainStart ==
    /\ main_pc \in {"idle", "done", "crashed"}
    /\ main_run < MaxRuns
    /\ \E now \in (today + 1)..MaxDay, prices_found \in BOOLEAN,
          udt1 \in first_update_dt(db_store, tables_to_update[1]),
          udt2 \in first_update_dt(db_store, tables_to_update[2]) :
        LET opened == DbReturn(db_store, EmptySession(db_store), "none",
                               Absent)
            r1 == refresh_step(opened, tables_to_update[1], udt1, now)
            r == refresh_step(r1, tables_to_update[2], udt2, now)
            secs == slice_table(r.store, r.session, "securities", NoFilter)
            logs == slice_table(r.store, r.session, "prices_log", NoFilter)
        IN /\ today' = now
           /\ main_run' = main_run + 1
           /\ db_store' = r.store
           /\ db_session' = r.session
           /\ start_date' = 0
           /\ price_data' = Unbound
           /\ new_eod_records' = <<>>
           /\ bckoff_ntries' = 0
           /\ main_window' = NoWindow
           /\ main_fell' = NoFallback
           /\ fetch_calls' = 0
           /\ main_limit' = NoLimit
           /\ main_refresh' =
                  [log |-> db_store["update_log"],
                   done |-> {tables_to_update[k] : k \in
                               {j \in 1..2 :
                                  should_update(<<udt1, udt2>>[j], now)}}]
           /\ IF r.err # "none"
              THEN /\ Crash(r.err)
                   /\ securities' = {}
                   /\ existing_securities' = Absent
                   /\ secpbar' = <<>>
              ELSE IF ~prices_found
              THEN /\ Crash("TypeError")
                   /\ securities' = {}
                   /\ existing_securities' = Absent
                   /\ secpbar' = <<>>
              ELSE IF secs.result.none
              THEN /\ Crash("AttributeError")
                   /\ securities' = {}
                   /\ existing_securities' = Absent
                   /\ secpbar' = <<>>
              ELSE /\ securities' = secs.result.rows
                   /\ existing_securities' = logs.result
                   /\ secpbar' = [k \in 1..Len(ListingOrder(secs.result.rows, 1))
                                     |-> ListingOrder(secs.result.rows, 1)[k].symbol]
                   /\ main_pc' = "select"
                   /\ main_err' = "none"
    /\ UNCHANGED <<db_err, db_result, db_op, db_arg, db_probe,
                   db_committed, notdbmain>>

\* lines 183-258: the head of an iteration, up to the choice of the window
SelectWindow ==
    /\ main_pc = "select"
    /\ LET symbol == Head(secpbar)
           recs == LogRowsOf(existing_securities, symbol)
           max_date == (CHOOSE r \in recs : TRUE).max_date
           start == BusDayAdd(max_date, 1)
           branch == window_branch(start, last_day)
       IN /\ IF existing_securities.none
             THEN /\ Crash("AttributeError")
                  /\ new_eod_records' = <<>>
                  /\ main_window' = [NoWindow EXCEPT !.made = TRUE,
                                                     !.symbol = symbol]
                  /\ UNCHANGED start_date
             ELSE IF recs = {}
             THEN /\ main_pc' = "store"
                  /\ new_eod_records' = <<>>
                  /\ main_window' = [NoWindow EXCEPT !.made = TRUE,
                                                     !.symbol = symbol]
                  /\ UNCHANGED <<start_date, main_err>>
             ELSE /\ start_date' = start
                  /\ new_eod_records' =
                         IF branch = "exchange_prices"
                         THEN <<exchange_prices("AMD")>>
                         ELSE <<>>
                  /\ main_pc' = IF branch = "download" THEN "fetch"
                                ELSE "store"
                  /\ main_window' = [made |-> TRUE, symbol |-> symbol,
                                     fetch |-> branch = "download",
                                     start |-> start, end |-> last_day]
                  /\ UNCHANGED main_err
    /\ fetch_calls' = 0
    /\ UNCHANGED <<today, main_run, main_refresh, main_limit, securities,
                   existing_securities, secpbar, price_data, bckoff_ntries,
                   main_fell, dbvars, notdbmain>>

\* lines 280-296: the records taken from price_data
TakeRecords(data) ==
    /\ new_eod_records' = new_eod_records \o data.rows
    /\ main_pc' = "store"
    /\ UNCHANGED main_err

\* lines 260-273, 280-296: get_prices returns (a frame or None)
FetchReturns ==
    /\ main_pc = "fetch"
    /\ \E found \in BOOLEAN, close \in Closes :
        LET data == IF found
                    THEN get_prices(Head(secpbar), start_date, last_day, close)
                    ELSE NoData
        IN /\ price_data' = data
           /\ bckoff_ntries' = 0
           /\ TakeRecords(data)
    /\ fetch_calls' = (fetch_calls + 1) % 2
    /\ UNCHANGED <<today, main_run, main_refresh, main_limit, securities,
                   existing_securities, secpbar, start_date, main_window,
                   main_fell, dbvars, notdbmain>>

\* lines 275-276, 280-296: get_prices raises dfu.LimitError; the loop is
\* left with price_data as the earlier iterations left it
FetchLimitError ==
    /\ main_pc = "fetch"
    /\ IF price_data.state = "unbound"
       THEN /\ Crash("UnboundLocalError")
            /\ UNCHANGED new_eod_records
       ELSE TakeRecords(price_data)
    /\ fetch_calls' = (fetch_calls + 1) % 2
    /\ main_limit' = [hit |-> TRUE, symbol |-> Head(secpbar),
                      store |-> db_store]
    /\ UNCHANGED <<today, main_run, main_refresh, securities,
                   existing_securities, secpbar, start_date, price_data,
                   bckoff_ntries, main_window, main_fell, dbvars, notdbmain>>

\* lines 277-278: get_prices raises dfu.ServerError; wait and try again.
\* The counter of the closure is kept up to MaxServerErrors, which then
\* stands for that many errors or more.
FetchServerError ==
    /\ main_pc = "fetch"
    /\ bckoff_ntries' = Min(bckoff_ntries + 1, MaxServerErrors)
    /\ fetch_calls' = (fetch_calls + 1) % 2
    /\ UNCHANGED <<main_pc, main_err, today, main_run, main_refresh,
                   main_limit, securities,
                   existing_securities, secpbar, start_date, price_data,
                   new_eod_records, main_window, main_fell, dbvars,
                   notdbmain>>

\* lines 298-325: stamp the records and insert them in bulk
StoreRecords ==
    /\ main_pc = "store"
    /\ IF new_eod_records = <<>>
       THEN /\ NextSymbol
            /\ UNCHANGED <<new_eod_records, main_err, main_fell, db_store,
                           db_session>>
       ELSE \E the_exchange \in exchs(Head(secpbar)) :
            LET records == with_exchange(new_eod_records, the_exchange)
                b == bulk_insert_records(db_store, db_session,
                                         "security_prices",
                                         [type |-> "list", rows |-> records])
                c == IF b.err = "none" THEN commit(b.store, b.session) ELSE b
            IN /\ new_eod_records' = records
               /\ db_store' = c.store
               /\ db_session' = c.session
               /\ UNCHANGED secpbar
               /\ IF c.err = "none"
                  THEN /\ main_pc' = "log"
                       /\ UNCHANGED <<main_err, main_fell>>
                  ELSE IF c.err = "IntegrityError"
                  THEN /\ main_pc' = "fallback"
                       /\ main_fell' =
                              [done |-> FALSE,
                               before |-> db_store["security_prices"],
                               batch |-> records]
                       /\ UNCHANGED main_err
                  ELSE /\ Crash(c.err)
                       /\ UNCHANGED main_fell
    /\ UNCHANGED <<today, main_run, main_refresh, fetch_calls, main_limit,
                   securities, existing_securities,
                   start_date, price_data, bckoff_ntries, main_window,
                   db_err, db_result, db_op, db_arg, db_probe,
                   db_committed, notdbmain>>

\* lines 337-345: insert one record and commit; roll back when it collides
RECURSIVE single_inserts(_, _)
single_inserts(acc, records) ==
    IF records = <<>> \/ acc.err # "none" THEN acc
    ELSE LET i == insert_record(acc.store, acc.session, "security_prices",
                                [type |-> "dict", rows |-> <<Head(records)>>])
             c == commit(i.store, i.session)
             after == IF c.err = "IntegrityError"
                      THEN rollback(c.store, c.session)
                      ELSE c
         IN single_inserts(after, Tail(records))

\* lines 327-347: the bulk insert raised IntegrityError
Fallback ==
    /\ main_pc = "fallback"
    /\ LET r == rollback(db_store, db_session)
           f == single_inserts(r, new_eod_records)
       IN /\ db_store' = f.store
          /\ db_session' = f.session
          /\ main_fell' = [main_fell EXCEPT !.done = TRUE]
          /\ IF f.err = "none"
             THEN /\ main_pc' = "log"
                  /\ UNCHANGED main_err
             ELSE Crash(f.err)
    /\ UNCHANGED <<today, main_run, main_refresh, fetch_calls, main_limit,
                   securities, existing_securities, secpbar,
                   start_date, price_data, new_eod_records, bckoff_ntries,
                   main_window, db_err, db_result, db_op, db_arg, db_probe,
                   db_committed,
                   notdbmain>>

\* lines 354-371: write the prices_log row of the symbol
LogUpdate ==
    /\ main_pc = "log"
    /\ LET symbol == Head(secpbar)
           price_log_update == [symbol |-> symbol, check_dt |-> today,
                                update_dt |-> today, max_date |-> start_date]
           existing_rec == LogRowsOf(existing_securities, symbol)
           w == IF existing_rec = {}
                THEN insert_record(db_store, db_session, "prices_log",
                                   [type |-> "dict",
                                    rows |-> <<price_log_update>>])
                ELSE update_record(db_store, db_session, "prices_log",
                                   price_log_update)
           c == IF w.err = "none" THEN commit(w.store, w.session) ELSE w
       IN /\ db_store' = c.store
          /\ db_session' = c.session
          /\ main_fell' = NoFallback
          /\ IF c.err = "none"
             THEN /\ NextSymbol
                  /\ UNCHANGED main_err
             ELSE /\ Crash(c.err)
                  /\ UNCHANGED secpbar
    /\ UNCHANGED <<today, main_run, main_refresh, fetch_calls, main_limit,
                   securities, existing_securities,
                   start_date, price_data, new_eod_records, bckoff_ntries,
                   main_window, db_err, db_result, db_op, db_arg, db_probe,
                   db_committed,
                   notdbmain>>

\* ------------------------------------------------------------------------
\* dfu.py: the AlphaVantage and Barchart data sources
\* ------------------------------------------------------------------------
\* One instance of each class.  access_log and req_object are the private
\* attributes of the instances; a request object is named by the number of
\* the HTTP request that made it (0 is None).  ds_clock is utcnow, one tick
\* per call.  What the vendor answers is drawn from a few payloads.

\* calls made on the two instances together
MaxCalls == 3

Adapters == {"AlphaVantage", "Barchart"}

\* 'Max number of symbols is 25'
MaxSymbols == 25

\* DataSource.__init__: the access log of a new instance
NewAccessLog == [total_requests |-> 0, last_request |-> 0]

\* DataSource._update_log
_update_log(log, now) ==
    [total_requests |-> log.total_requests + 1, last_request |-> now]

\* str.lower, word by word
Lower(word) ==
    CASE word = "Invalid" -> "invalid"
      [] word = "API" -> "api"
      [] word = "Higher" -> "higher"
      [] OTHER -> word

\* msg.lower().find(needle) != -1, on texts taken as lists of words
Finds(msg, needle) ==
    LET low == [k \in 1..Len(msg) |-> Lower(msg[k])]
    IN \E at \in 1..Len(low) :
           /\ at + Len(needle) - 1 <= Len(low)
           /\ SubSeq(low, at, at + Len(needle) - 1) = needle

\* payloads of AlphaVantage: keys are the top-level keys, msg the text under
\* a single key, rows the number of rows of the time series
AvPayloads ==
    {[ok |-> FALSE, keys |-> <<>>, msg |-> <<>>, rows |-> 0],
     [ok |-> TRUE, keys |-> <<>>, msg |-> <<>>, rows |-> 0],
     [ok |-> TRUE, keys |-> <<"Error Message">>,
      msg |-> <<"Invalid", "API", "call">>, rows |-> 0],
     [ok |-> TRUE, keys |-> <<"Error Message">>,
      msg |-> <<"the", "parameter", "apikey", "is", "invalid">>, rows |-> 0],
     [ok |-> TRUE, keys |-> <<"Information">>,
      msg |-> <<"a", "Higher", "API", "call", "frequency">>, rows |-> 0],
     [ok |-> TRUE, keys |-> <<"Information">>,
      msg |-> <<"thank", "you">>, rows |-> 0],
     [ok |-> TRUE, keys |-> <<"Note">>,
      msg |-> <<"thank", "you">>, rows |-> 0],
     [ok |-> TRUE, keys |-> <<"Meta Data", "Time Series (Daily)">>,
      msg |-> <<>>, rows |-> 0],
     [ok |-> TRUE, keys |-> <<"Meta Data", "Time Series (Daily)">>,
      msg |-> <<>>, rows |-> 2]}

\* the while loop of AlphaVantage._retrieve (lines 470-495): the error it
\* raises, "hang" when no branch raises or breaks, "none" when it breaks
retrieve_loop(payload) ==
    IF Len(payload.keys) < 2
    THEN IF payload.keys = <<>> THEN "IndexError"
         ELSE LET req_key == payload.keys[1]
              IN IF req_key = "Error Message"
                 THEN IF Finds(payload.msg, <<"invalid", "api", "call">>)
                      THEN "InvalidCallError" ELSE "hang"
                 ELSE IF req_key = "Information"
                 THEN IF Finds(payload.msg, <<"higher", "api", "call">>)
                      THEN "RateLimitError" ELSE "hang"
                 ELSE "GeneralCallError"
    ELSE IF \E k \in 1..Len(payload.keys) : payload.keys[k] = "Meta Data"
         THEN "none" ELSE "KeyError"

\* what a call leaves: the access log, the request object, the HTTP
\* requests issued, the error raised ("none": the call returned)
DsReturn(log, req, http, err) ==
    [log |-> log, req |-> req, http |-> http, err |-> err]

\* AlphaVantage._retrieve
AvRetrieve(log, req, http, payload, now) ==
    LET looped == retrieve_loop(payload)
    IN IF ~payload.ok THEN DsReturn(log, http + 1, http + 1, "HTTPError")
       ELSE IF looped # "none"
       THEN DsReturn(log, http + 1, http + 1, looped)
       ELSE DsReturn(_update_log(log, now), http + 1, http + 1, "none")

\* DataFrame.from_dict(rows).set_index(['Symbol', 'Datetime']): a frame
\* without rows has no columns
set_index(ret, rows) ==
    IF ret.err = "none" /\ rows = 0 THEN [ret EXCEPT !.err = "KeyError"]
    ELSE ret

\* AlphaVantage.retrieve_data(symbol, series, output)
AvRetrieveDataOf(log, req, http, args, payload, now) ==
    IF ~args.series_known THEN DsReturn(log, req, http, "ValueError")
    ELSE IF ~args.output_known THEN DsReturn(log, req, http, "ValueError")
    ELSE IF ~args.symbol_str THEN DsReturn(log, req, http, "TypeError")
    ELSE set_index(AvRetrieve(log, req, http, payload, now), payload.rows)

\* AlphaVantage.retrieve_latest(symbol, from_dt, series)
AvRetrieveLatestOf(log, req, http, args, payload, now) ==
    IF ~args.from_dt_datetime THEN DsReturn(log, req, http, "TypeError")
    ELSE AvRetrieveDataOf(log, req, http,
                          [args EXCEPT !.output_known = TRUE], payload, now)

\* Barchart answers: results is None, or a list of quotes
BcPayloads == {[none |-> TRUE, rows |-> 0], [none |-> FALSE, rows |-> 0],
               [none |-> FALSE, rows |-> 2]}

\* Barchart._retrieve
BcRetrieve(log, req, http, payload, now) ==
    IF payload.none THEN DsReturn(log, http + 1, http + 1, "TypeError")
    ELSE DsReturn(_update_log(log, now), http + 1, http + 1, "none")

\* a symbol argument: a string, or a list of so many symbols
SymbolArgs ==
    {[type |-> "str", items |-> [k \in 1..n |-> "A"]] : n \in {1, 26}}
    \cup {[type |-> "list", items |-> [k \in 1..n |-> "AMD"]] :
              n \in {1, 25, 26}}

\* len(symbol) > 25
too_many_never(symbol) == FALSE
too_many(symbol) == Len(symbol.items) > MaxSymbols

\* Barchart.retrieve_data(symbol, mode)
BcRetrieveDataOf(log, req, http, symbol, payload, now) ==
    IF symbol.type # "str" /\ too_many(symbol)
    THEN DsReturn(log, req, http, "TooManySymbolsError")
    ELSE set_index(BcRetrieve(log, req, http, payload, now), payload.rows)

AvArgs ==
    [series_known : BOOLEAN, output_known : BOOLEAN, symbol_str : BOOLEAN,
     from_dt_datetime : {TRUE}]

AvLatestArgs ==
    [series_known : BOOLEAN, output_known : {TRUE}, symbol_str : BOOLEAN,
     from_dt_datetime : BOOLEAN]

NoDsCall == [source |-> "none", method |-> "none", symbol |-> <<>>,
             payload |-> <<>>, reached |-> FALSE, err |-> "none"]

NoDsHist == [returned |-> 0, last |-> 0]

\* take over what a call left, and keep the history
DsApply(a, method, symbol, payload, reached, ret) ==
    /\ ds_call.err # "hang"
    /\ ds_clock < MaxCalls
    /\ ds_clock' = ds_clock + 1
    /\ access_log' = [access_log EXCEPT ![a] = ret.log]
    /\ req_object' = [req_object EXCEPT ![a] = ret.req]
    /\ ds_http' = ret.http
    /\ ds_call' = [source |-> a, method |-> method, symbol |-> symbol,
                   payload |-> payload, reached |-> reached, err |-> ret.err]
    /\ ds_hist' = IF ret.err = "none"
                  THEN [ds_hist EXCEPT ![a] =
                           [returned |-> @.returned + 1,
                            last |-> ds_clock + 1]]
                  ELSE ds_hist
    /\ UNCHANGED notds

AvRetrieveData ==
    \E args \in AvArgs, payload \in AvPayloads :
        DsApply("AlphaVantage", "retrieve_data", <<>>, payload,
                args.series_known /\ args.output_known /\ args.symbol_str,
                AvRetrieveDataOf(access_log["AlphaVantage"],
                                 req_object["AlphaVantage"], ds_http, args,
                                 payload, ds_clock + 1))

AvRetrieveLatest ==
    \E args \in AvLatestArgs, payload \in AvPayloads :
        DsApply("AlphaVantage", "retrieve_latest", <<>>, payload,
                args.series_known /\ args.from_dt_datetime /\ args.symbol_str,
                AvRetrieveLatestOf(access_log["AlphaVantage"],
                                   req_object["AlphaVantage"], ds_http, args,
                                   payload, ds_clock + 1))

BcRetrieveData ==
    \E symbol \in SymbolArgs, payload \in BcPayloads :
        DsApply("Barchart", "retrieve_data", symbol, payload, TRUE,
                BcRetrieveDataOf(access_log["Barchart"],
                                 req_object["Barchart"], ds_http, symbol,
                                 payload, ds_clock + 1))

\* Barchart.retrieve_latest: retrieve_data(symbol=symbol, mode=mode)
BcRetrieveLatest ==
    \E symbol \in SymbolArgs, payload \in BcPayloads :
        DsApply("Barchart", "retrieve_latest", symbol, payload, TRUE,
                BcRetrieveDataOf(access_log["Barchart"],
                                 req_object["Barchart"], ds_http, symbol,
                                 payload, ds_clock + 1))

\* ------------------------------------------------------------------------
\* knowsec/knowsec2.py and knowsec/intriniov2.py: the Intrinio2 adapters
\* ------------------------------------------------------------------------
\* The vendor's SDK (intrinio_sdk) is not part of the sources; an endpoint
\* is modelled from its description: it holds the records 1..total, serves
\* them in pages of a fixed size and names the page that follows by a
\* cursor, or by null (NULL) on the last page.  A cursor is the number of
\* records served before its page, so the empty cursor '' is 0.  The vendor
\* holds at least one record.

\* records the vendor holds for an endpoint
MaxRecords == 4

\* the page sizes the vendor serves
PageSizes == {1, 2, 3}

\* kwargs without a next_page entry
NoNextPage == 0 - 2

\* kwargs['next_page'] = ''
EmptyPage == 0

PagingMethods ==
    {"knowsec2.get_exchanges", "knowsec2.get_securities",
     "knowsec2.get_prices_exchange", "intriniov2.get_exchanges"}

\* the has_paging argument the method gives to _endpoint_gen
has_paging(method) == method = "knowsec2.get_securities"

NoPgResult == [err |-> "none", rows |-> <<>>]

\* api_endpoint(**kwargs): the response of the vendor
api_endpoint(total, size, next_page) ==
    LET offset == IF next_page = NoNextPage THEN 0 ELSE next_page
        last == Min(offset + size, total)
    IN [records |-> [k \in 1..(last - offset) |-> offset + k],
        next_page |-> IF last < total THEN last ELSE NULL]

\* [recs for reschunk in response for recs in reschunk]
RECURSIVE Flatten(_)
Flatten(response) ==
    IF response = <<>> THEN <<>>
    ELSE Head(response) \o Flatten(Tail(response))

\* a method of Intrinio2 is called: up to the first request
Intrinio2Call ==
    /\ pg_pc \in {"idle", "done"}
    /\ \E method \in PagingMethods, total \in 1..MaxRecords,
          size \in PageSizes :
           /\ pg_method' = method
           /\ pg_total' = total
           /\ pg_size' = size
           /\ pg_kwargs' = IF has_paging(method) THEN EmptyPage
                           ELSE NoNextPage
           /\ pg_pc' = IF method = "intriniov2.get_exchanges"
                       THEN "execute" ELSE "request"
    /\ pg_sent' = <<>>
    /\ pg_response' = <<>>
    /\ pg_result' = NoPgResult
    /\ UNCHANGED notpg

\* knowsec2.py lines 109-132: one turn of the loop of response_value
EndpointGen ==
    /\ pg_pc = "request"
    /\ pg_sent' = Append(pg_sent, pg_kwargs)
    /\ \E raised \in BOOLEAN :
        IF raised
        THEN /\ pg_pc' = "done"
             /\ pg_result' = [err |-> "ApiException", rows |-> <<>>]
             /\ UNCHANGED <<pg_kwargs, pg_response>>
        ELSE LET api_response == api_endpoint(pg_total, pg_size, pg_kwargs)
             IN /\ pg_response' = Append(pg_response, api_response.records)
                /\ IF api_response.next_page # NULL
                   THEN /\ pg_kwargs' = api_response.next_page
                        /\ UNCHANGED pg_pc
                   ELSE /\ pg_pc' = "flatten"
                        /\ UNCHANGED pg_kwargs
                /\ UNCHANGED pg_result
    /\ UNCHANGED <<pg_method, pg_total, pg_size, notpg>>

\* intriniov2.py lines 44-57: _execute_endpoint, one request
ExecuteEndpoint ==
    /\ pg_pc = "execute"
    /\ pg_sent' = Append(pg_sent, pg_kwargs)
    /\ \E raised \in BOOLEAN :
        IF raised
        THEN /\ pg_pc' = "done"
             /\ pg_result' = [err |-> "ApiException", rows |-> <<>>]
             /\ UNCHANGED pg_response
        ELSE /\ pg_response' =
                    <<api_endpoint(pg_total, pg_size, pg_kwargs).records>>
             /\ pg_pc' = "flatten"
             /\ UNCHANGED pg_result
    /\ UNCHANGED <<pg_method, pg_total, pg_size, pg_kwargs, notpg>>

\* the records of the responses become the frame the method returns
Intrinio2Return ==
    /\ pg_pc = "flatten"
    /\ pg_result' = [err |-> "none", rows |-> Flatten(pg_response)]
    /\ pg_pc' = "done"
    /\ UNCHANGED <<pg_method, pg_total, pg_size, pg_kwargs, pg_sent,
                   pg_response, notpg>>

\* ------------------------------------------------------------------------
\* knowsec/database.py: the tables of the store and the declared catalog
\* ------------------------------------------------------------------------
\* names a caller may pass: the declared tables (SQLBASE.metadata), a table
\* that is not declared, and a name used nowhere
TableNames == Tables \cup {"scratch", "nowhere"}

\* the mapped class of a declared table (sqlalchemy_utils.get_class_by_table)
get_class_by_table(table) ==
    CASE table = "securities" -> "Securities"
      [] table = "exchanges" -> "Exchanges"
      [] table = "security_prices" -> "Prices"
      [] table = "prices_log" -> "EODPrices_log"
      [] table = "update_log" -> "Update_log"

\* StockDB.has_table: tablename in self._dbengine.table_names()
has_table(table_names, tablename) == tablename \in table_names

\* StockDB.table_map: [err, value]
table_map(table_names, tablename) ==
    IF ~has_table(table_names, tablename)
    THEN [err |-> "NoTableError", value |-> NULL]
    ELSE IF tablename \notin Tables
    THEN [err |-> "KeyError", value |-> NULL]
    ELSE [err |-> "none", value |-> tablename]

\* StockDB.table_class: [err, value]
table_class(table_names, tablename) ==
    LET table == table_map(table_names, tablename)
    IN IF table.err # "none" THEN table
       ELSE [err |-> "none", value |-> get_class_by_table(table.value)]

CatCall(op, tablename, ret) ==
    cat_call' = [op |-> op, tablename |-> tablename, err |-> ret.err,
                 value |-> ret.value]

\* StockDB.create_all_tables
CreateAllTables ==
    /\ cat_tables' = cat_tables \cup Tables
    /\ CatCall("create_all_tables", "", [err |-> "none", value |-> NULL])
    /\ UNCHANGED notcat

\* StockDB.delete_table(tablename)
DeleteTable ==
    \E tablename \in TableNames :
        LET table == table_map(cat_tables, tablename)
        IN /\ cat_tables' = IF table.err = "none"
                            THEN cat_tables \ {tablename} ELSE cat_tables
           /\ CatCall("delete_table", tablename,
                      [err |-> table.err, value |-> NULL])
           /\ UNCHANGED notcat

\* insert_record(tablename, frame) / bulk_insert_records(tablename, frame):
\* DataFrame.to_sql(..., if_exists='append') creates a table that is missing
FrameToSql ==
    \E tablename \in TableNames \ {"nowhere"} :
        /\ cat_tables' = cat_tables \cup {tablename}
        /\ CatCall("insert_record", tablename,
                   [err |-> "none", value |-> NULL])
        /\ UNCHANGED notcat

TableMap ==
    \E tablename \in TableNames :
        /\ CatCall("table_map", tablename, table_map(cat_tables, tablename))
        /\ UNCHANGED <<cat_tables, notcat>>

TableClass ==
    \E tablename \in TableNames :
        /\ CatCall("table_class", tablename,
                   table_class(cat_tables, tablename))
        /\ UNCHANGED <<cat_tables, notcat>>

\* ------------------------------------------------------------------------
\* knowsec/timetrack.py.  Instants are whole seconds since the Timetrack was
\* made; a timedelta is a number of seconds, its .days and .seconds the
\* quotient and the remainder by the seconds of a day.
\* ------------------------------------------------------------------------
\* steps of dt.datetime.utcnow() between calls
MaxTicks == 3

DaySeconds == 86400
TickSizes == {5, DaySeconds}
Tags == {"root", "job"}

\* Timetrack.now(tag)
TimetrackNow(int_time, clock, tag) ==
    IF int_time[tag].end = NULL THEN clock ELSE int_time[tag].end

\* Timetrack.elapsed(tag)
elapsed(int_time, clock, tag) ==
    TimetrackNow(int_time, clock, tag) - int_time[tag].start

\* timedelta.seconds + timedelta.microseconds * 1e-6
elapsed_seconds(int_time, clock, tag) ==
    elapsed(int_time, clock, tag) % DaySeconds

\* execution_time(start_time, end_time)['seconds']
execution_time(start_time, end_time) ==
    (end_time - start_time) % DaySeconds

\* a call on a tag: KeyError without int_time[tag], TypeError when a
\* datetime is subtracted from start = None
TtCall(op, tag, needs_start, ret, int_time) ==
    IF ~tt_time[tag].made
    THEN /\ tt_call' = [op |-> op, tag |-> tag, err |-> "KeyError",
                        ret |-> NULL]
         /\ tt_time' = tt_time
    ELSE IF needs_start /\ tt_time[tag].start = NULL
    THEN /\ tt_call' = [op |-> op, tag |-> tag, err |-> "TypeError",
                        ret |-> NULL]
         /\ tt_time' = tt_time
    ELSE /\ tt_call' = [op |-> op, tag |-> tag, err |-> "none", ret |-> ret]
         /\ tt_time' = int_time

\* dt.datetime.utcnow() moves on
Tick ==
    \E d \in TickSizes :
        /\ tt_ticks < MaxTicks
        /\ tt_ticks' = tt_ticks + 1
        /\ tt_clock' = tt_clock + d
        /\ tt_call' = [op |-> "tick", tag |-> "root", err |-> "none",
                       ret |-> NULL]
        /\ UNCHANGED <<tt_time, nottt>>

Now ==
    \E tag \in Tags :
        /\ TtCall("now", tag, FALSE, TimetrackNow(tt_time, tt_clock, tag),
                  tt_time)
        /\ UNCHANGED <<tt_clock, tt_ticks, nottt>>

ResetTime ==
    \E tag \in Tags :
        /\ TtCall("reset_time", tag, FALSE, NULL,
                  [tt_time EXCEPT ![tag].start =
                       TimetrackNow(tt_time, tt_clock, tag)])
        /\ UNCHANGED <<tt_clock, tt_ticks, nottt>>

NewTime ==
    \E tag \in Tags :
        /\ tt_time' = [tt_time EXCEPT ![tag] =
                           [made |-> TRUE, start |-> tt_clock, end |-> NULL]]
        /\ tt_call' = [op |-> "new_time", tag |-> tag, err |-> "none",
                       ret |-> NULL]
        /\ UNCHANGED <<tt_clock, tt_ticks, nottt>>

\* a pause that always takes the live clock
pause_time_live(int_time, clock, tag) ==
    [int_time EXCEPT ![tag].end = clock]
pause_time(int_time, clock, tag) ==
    [int_time EXCEPT ![tag].end = TimetrackNow(int_time, clock, tag)]

PauseTime ==
    \E tag \in Tags :
        /\ TtCall("pause_time", tag, FALSE, NULL,
                  pause_time(tt_time, tt_clock, tag))
        /\ UNCHANGED <<tt_clock, tt_ticks, nottt>>

UnpauseTime ==
    \E tag \in Tags :
        /\ TtCall("unpause_time", tag, FALSE, NULL,
                  [tt_time EXCEPT ![tag].end = NULL])
        /\ UNCHANGED <<tt_clock, tt_ticks, nottt>>

Elapsed ==
    \E tag \in Tags :
        /\ TtCall("elapsed", tag, TRUE, elapsed(tt_time, tt_clock, tag),
                  tt_time)
        /\ UNCHANGED <<tt_clock, tt_ticks, nottt>>

ElapsedSeconds ==
    \E tag \in Tags :
        /\ TtCall("elapsed_seconds", tag, TRUE,
                  elapsed_seconds(tt_time, tt_clock, tag), tt_time)
        /\ UNCHANGED <<tt_clock, tt_ticks, nottt>>

\* Timetrack.execution(tag)['seconds']
Execution ==
    \E tag \in Tags :
        /\ TtCall("execution", tag, TRUE,
                  execution_time(tt_time[tag].start,
                                 TimetrackNow(tt_time, tt_clock, tag)),
                  tt_time)
        /\ UNCHANGED <<tt_clock, tt_ticks, nottt>>

\* ------------------------------------------------------------------------
\* Idle components: what a specification about one component holds the
\* other components at
\* ------------------------------------------------------------------------
BackoffIdle ==
    /\ bk_kind = "none"
    /\ bk_args = [max_backoff |-> 0, initial_wait |-> 0, step |-> 0, backoff |-> 0]
    /\ BackoffFresh

ShiftIdle ==
    /\ sh_pc = "idle"
    /\ sh_x = [type |-> "datetime", t |-> 0]
    /\ sh_n = 0
    /\ sh_unit = "day"
    /\ sh_first = [err |-> "none", value |-> [type |-> "datetime", t |-> 0]]
    /\ sh_second = [err |-> "none", value |-> [type |-> "datetime", t |-> 0]]

LogIdle ==
    /\ lg_inst = [i \in Instances |-> NoInstance]
    /\ lg_loggers = [n \in LoggerNames |-> <<>>]
    /\ lg_hlevel = <<>>
    /\ lg_emit = NoEmit
    /\ lg_err = "none"
    /\ lg_hformat = <<>>
    /\ lg_call = NoFormatCall

DbIdle ==
    /\ db_store = [t \in Tables |-> {}]
    /\ db_session = EmptySession(db_store)
    /\ db_err = "none"
    /\ db_result = Absent
    /\ db_op = "none"
    /\ db_arg = <<>>
    /\ db_probe = NoProbe
    /\ db_committed = db_store

MainIdle ==
    /\ main_pc = "idle"
    /\ main_err = "none"
    /\ main_run = 0
    /\ today = 0
    /\ securities = {}
    /\ existing_securities = Absent
    /\ secpbar = <<>>
    /\ start_date = 0
    /\ price_data = Unbound
    /\ new_eod_records = <<>>
    /\ bckoff_ntries = 0
    /\ main_window = NoWindow
    /\ main_fell = NoFallback
    /\ main_refresh = NoRefresh
    /\ fetch_calls = 0
    /\ main_limit = NoLimit

SourceIdle ==
    /\ access_log = [a \in Adapters |-> NewAccessLog]
    /\ req_object = [a \in Adapters |-> 0]
    /\ ds_clock = 0
    /\ ds_http = 0
    /\ ds_call = NoDsCall
    /\ ds_hist = [a \in Adapters |-> NoDsHist]

PagingIdle ==
    /\ pg_pc = "idle"
    /\ pg_method = "none"
    /\ pg_total = 1
    /\ pg_size = 1
    /\ pg_kwargs = NoNextPage
    /\ pg_sent = <<>>
    /\ pg_response = <<>>
    /\ pg_result = NoPgResult

CatalogIdle ==
    /\ cat_tables = {}
    /\ cat_call = [op |-> "none", tablename |-> "", err |-> "none",
                   value |-> NULL]

\* Timetrack(): 'root' started at construction, no other tag
TimetrackIdle ==
    /\ tt_clock = 0
    /\ tt_ticks = 0
    /\ tt_time = [tag \in Tags |->
                     IF tag = "root"
                     THEN [made |-> TRUE, start |-> 0, end |-> NULL]
                     ELSE [made |-> FALSE, start |-> NULL, end |-> NULL]]
    /\ tt_call = [op |-> "none", tag |-> "root", err |-> "none",
                  ret |-> NULL]

\* ------------------------------------------------------------------------
\* Specifications and the properties checked under them
\* ------------------------------------------------------------------------
InitBackoff ==
    /\ bk_kind \in {"exponential", "linear", "constant"}
    /\ \E m \in MaxBackoffs, i \in InitialWaits, s \in Steps :
        bk_args = CASE bk_kind = "exponential" ->
                         [max_backoff |-> m, initial_wait |-> 0, step |-> 0,
                          backoff |-> 0]
                    [] bk_kind = "linear" ->
                         [max_backoff |-> m, initial_wait |-> i, step |-> s,
                          backoff |-> 0]
                    [] OTHER ->
                         [max_backoff |-> 0, initial_wait |-> 0, step |-> 0,
                          backoff |-> m]
    /\ BackoffFresh
    /\ ShiftIdle
    /\ LogIdle
    /\ DbIdle
    /\ MainIdle
    /\ SourceIdle
    /\ PagingIdle
    /\ CatalogIdle
    /\ TimetrackIdle

NextBackoff ==
    \/ exponential_backoff_fun
    \/ linear_backoff_fun
    \/ constant_backoff_fun

SpecBackoff == InitBackoff /\ [][NextBackoff]_vars

\* ---- claims about backoff.py, checked under SpecBackoff ----

\* C1: a waiting call of an exponential_backoff(M) closure returns
\* wait_time <= M, and the k-th consecutive waiting call (k from 0) returns
\* wait_time >= min(2^k, M), whatever jitter is drawn.
C1_ExponentialBounds ==
    (bk_kind = "exponential" /\ bk_call.made /\ bk_call.should_wait) =>
        /\ bk_ret.wait_time <= bk_args.max_backoff
        /\ bk_ret.wait_time >=
               Min(Pow2(bk_since - 1) * Sec, bk_args.max_backoff)

\* the 8th waiting call of exponential_backoff(120) is clamped at 120 s,
\* the 3rd one with the largest jitter is not
C1_Witness ==
    /\ bk_kind = "exponential"
    /\ bk_args.max_backoff = 120 * Sec
    /\ bk_call.should_wait
    /\ \/ bk_since = 8 /\ bk_ret.wait_time = 120 * Sec
       \/ bk_since = 3 /\ bk_ret.wait_time = 5 * Sec

\* C2: for each of the three closures a call with should_wait = false sets
\* the counter to 0 and returns ntries = 0, wait_time = 0 without calling
\* time.sleep; the next waiting call computes its wait from n = 0 as the
\* first call of a fresh closure does, and the ntries a waiting call returns
\* is the number of waiting calls since the reset.
C2_ResetContract ==
    /\ (bk_call.made /\ ~bk_call.should_wait) =>
          /\ backoff_ntries = 0
          /\ bk_ret = [ntries |-> 0, wait_time |-> 0]
          /\ bk_sleep = NoSleep
    /\ (bk_call.made /\ bk_call.should_wait) =>
          /\ bk_ret.ntries = bk_since
          /\ bk_sleep = bk_ret.wait_time
    /\ (bk_call.made /\ bk_call.should_wait /\ bk_since = 1) =>
          bk_ret.wait_time =
              CASE bk_kind = "exponential" ->
                       Min(Sec + bk_call.jitter, bk_args.max_backoff)
                [] bk_kind = "linear" ->
                       Min(bk_args.initial_wait, bk_args.max_backoff)
                [] OTHER -> bk_args.backoff

\* the first waiting call after a reset, and a reset itself
C2_Witness ==
    /\ bk_reset_seen
    /\ bk_call.made
    /\ \/ bk_call.should_wait /\ bk_since = 1 /\ bk_kind = "linear"
       \/ ~bk_call.should_wait /\ bk_kind = "constant"

\* C3: the k-th consecutive waiting call (k from 0) of a
\* linear_backoff(max_backoff, initial_wait, step) closure returns
\* min(initial_wait + k * step, max_backoff); with (10, 1, 1) the waits are
\* 1, 2, ..., 10, 10, ... and never exceed 10.
C3_LinearSequence ==
    (bk_kind = "linear" /\ bk_call.made /\ bk_call.should_wait) =>
        /\ bk_ret.wait_time =
               Min(bk_args.initial_wait + (bk_since - 1) * bk_args.step,
                   bk_args.max_backoff)
        /\ (/\ bk_args.max_backoff = 10 * Sec
            /\ bk_args.initial_wait = 1 * Sec
            /\ bk_args.step = 1 * Sec) =>
               /\ bk_ret.wait_time <= 10 * Sec
               /\ bk_ret.wait_time =
                      IF bk_since <= 10 THEN bk_since * Sec ELSE 10 * Sec

\* the 11th waiting call of linear_backoff(10, 1, 1) waits 10 s
C3_Witness ==
    /\ bk_kind = "linear"
    /\ bk_args.max_backoff = 10 * Sec
    /\ bk_args.initial_wait = 1 * Sec
    /\ bk_args.step = 1 * Sec
    /\ bk_call.should_wait
    /\ bk_since = 11
    /\ bk_ret.wait_time = 10 * Sec

InitShift ==
    /\ sh_pc = "start"
    /\ sh_x \in ShiftInputs
    /\ sh_n \in 0..MaxShiftN
    /\ sh_unit \in ShiftUnits \cup OtherUnits
    /\ sh_first = ShiftOk([type |-> "datetime", t |-> 0])
    /\ sh_second = ShiftOk([type |-> "datetime", t |-> 0])
    /\ BackoffIdle
    /\ LogIdle
    /\ DbIdle
    /\ MainIdle
    /\ SourceIdle
    /\ PagingIdle
    /\ CatalogIdle
    /\ TimetrackIdle

NextShift ==
    \/ ShiftBack
    \/ ShiftForth

SpecShift == InitShift /\ [][NextShift]_vars

\* ---- claims about date_utils.py, checked under SpecShift ----

\* C4: for every date-time x, every n >= 0 and every unit among day, week,
\* year, quarter, month, minute, second, hour, shifting x backwards and then
\* forwards by the same n and unit raises no error and returns x.
C4_ShiftRoundTrip ==
    (sh_unit \in ShiftUnits /\ sh_pc # "start") =>
        /\ sh_pc # "raised"
        /\ sh_pc = "done" => sh_second.value = sh_x

InitLog ==
    /\ LogIdle
    /\ BackoffIdle
    /\ ShiftIdle
    /\ DbIdle
    /\ MainIdle
    /\ SourceIdle
    /\ PagingIdle
    /\ CatalogIdle
    /\ TimetrackIdle

NextLog ==
    \/ Easylog_init
    \/ add_consolelogger
    \/ add_streamlogger
    \/ add_filelogger
    \/ log_critical
    \/ log_error
    \/ log_warning
    \/ log_info
    \/ log_debug
    \/ set_logformat

SpecLog == InitLog /\ [][NextLog]_vars

\* ---- claims about easylog.py, checked under SpecLog ----

\* the handlers, in order, of hs whose level is at or below levelno
RECURSIVE AtOrBelow(_, _)
AtOrBelow(recs, levelno) ==
    IF recs = <<>> THEN <<>>
    ELSE IF Head(recs).loglevel <= levelno
         THEN <<Head(recs).handler>> \o AtOrBelow(Tail(recs), levelno)
         ELSE AtOrBelow(Tail(recs), levelno)

\* no other created instance logs through the same logging.Logger
SoleUser(i) ==
    \A j \in Instances \ {i} :
        lg_inst[j].created => lg_inst[j].loggername # lg_inst[i].loggername

SetLogformatContract ==
    lg_call'.made =>
        LET inst == lg_inst[lg_call'.inst]
            named == {inst.handlers[k].handler : k \in
                         {j \in 1..Len(inst.handlers) :
                              inst.handlers[j].name = lg_call'.handlername}}
        IN IF inst.handlers = <<>>
           THEN /\ lg_err' = "NoDefinedHandlersError"
                /\ lg_hformat' = lg_hformat
           ELSE IF named = {}
           THEN /\ lg_err' = "NoHandlersFoundError"
                /\ lg_hformat' = lg_hformat
           ELSE /\ lg_err' = "none"
                /\ lg_hlevel' = lg_hlevel
                /\ lg_hformat' =
                       [h \in 1..Len(lg_hformat) |->
                           IF h \in named THEN lg_call'.fmt
                           ELSE lg_hformat[h]]

\* C21: set_logformat(handlername, fmt) raises the no-handlers-defined error
\* when the instance has no handlers, the handler-not-found error when none
\* of its handlers has the name, and otherwise gives the named handler the
\* new formatter and leaves every other formatter and every level alone.
C21_SetLogformat == [][SetLogformatContract]_vars

\* C27: no two handlers of an Easylog instance have the same name, whatever
\* mix of explicit and generated names the add calls used.
C27_UniqueHandlerNames ==
    \A i \in Instances :
        \A j, k \in 1..Len(lg_inst[i].handlers) :
            lg_inst[i].handlers[j].name = lg_inst[i].handlers[k].name
                => j = k

\* C29: a message logged through an instance is emitted only by handlers
\* that were added through that instance.
C29_OwnHandlersOnly ==
    lg_emit.made =>
        \A e \in 1..Len(lg_emit.by) :
            \E k \in 1..Len(lg_inst[lg_emit.inst].handlers) :
                lg_inst[lg_emit.inst].handlers[k].handler = lg_emit.by[e]


InitDb ==
    /\ DbIdle
    /\ BackoffIdle
    /\ ShiftIdle
    /\ LogIdle
    /\ MainIdle
    /\ SourceIdle
    /\ PagingIdle
    /\ CatalogIdle
    /\ TimetrackIdle

NextDb ==
    \/ ApiInsertRecord
    \/ ApiInsertOther
    \/ ApiBulkInsertRecords
    \/ ApiBulkInsertOther
    \/ ApiInsertFrame
    \/ ApiUpdateRecord
    \/ ApiCommit
    \/ ApiRollback
    \/ ApiReplaceTable
    \/ ApiSliceTable

SpecDb == InitDb /\ [][NextDb]_vars

\* ---- claims about database.py, checked under SpecDb ----

\* C6: after insert_record(name, record) with a mapping whose primary key
\* is not yet in the table, a slice_table(name, filters = the primary key
\* of the record) that follows returns exactly the one row inserted, whether
\* or not commit() was called in between.
C6_InsertThenSlice ==
    (/\ db_op = "slice_table"
     /\ db_probe.stage \in {"inserted", "committed"}
     /\ db_arg = PkFilter(ApiTable, db_probe.row)) =>
        db_result = Frame({db_probe.row})

\* C6 as amended: the slice returns the one row inserted once commit() has
\* succeeded in between, and the absent result before that.
C6_InsertCommitThenSlice ==
    (/\ db_op = "slice_table"
     /\ db_probe.stage \in {"inserted", "committed"}
     /\ db_arg = PkFilter(ApiTable, db_probe.row)) =>
        /\ db_probe.stage = "committed" => db_result = Frame({db_probe.row})
        /\ db_probe.stage = "inserted" => db_result = Absent

\* a record without close inserted, committed and read back, close unset
C6_Witness ==
    /\ db_op = "slice_table"
    /\ db_probe.stage = "committed"
    /\ db_arg = PkFilter(ApiTable, db_probe.row)
    /\ db_probe.row.close = NULL
    /\ db_result = Frame({db_probe.row})

\* C7: update_record(name, record) with a record that lacks a primary-key
\* column raises KeyError (Missing-Key) and changes no row, committed or
\* pending.
C7_UpdateMissingKey ==
    [][(/\ db_op' = "update_record"
        /\ \E pkey \in table_keys(ApiTable) : pkey \notin DOMAIN db_arg') =>
           /\ db_err' = "KeyError"
           /\ db_store' = db_store
           /\ db_session' = db_session]_vars

\* the call was made on a table with committed, flushed and pending rows
C7_Witness ==
    /\ db_op = "update_record"
    /\ "date" \notin DOMAIN db_arg
    /\ db_err = "KeyError"
    /\ db_store[ApiTable] # {}
    /\ db_session.txn[ApiTable] # db_store[ApiTable]
    /\ db_session.new # <<>>

\* the column tests of one mapping, all of which a selected row passes
ColumnTests(row, mapping) ==
    \A col \in DOMAIN mapping :
        IF mapping[col].coll
        THEN row[col] \in mapping[col].elems
        ELSE \A value \in mapping[col].elems : row[col] = value

\* the rows of the stored table that satisfy the filters of the last call
Satisfying ==
    {row \in db_store[ApiTable] :
        CASE db_arg.type = "None" -> TRUE
          [] db_arg.type = "dict" -> ColumnTests(row, db_arg.dicts[1])
          [] OTHER -> \E k \in 1..Len(db_arg.dicts) :
                          ColumnTests(row, db_arg.dicts[k])}

\* C22: slice_table(name, filters=F) returns exactly the rows of the table
\* that satisfy F, a mapping being the conjunction of its column tests
\* (equality for a scalar, membership for a collection) and a list of
\* mappings their disjunction; it returns None if and only if no row
\* satisfies F, and filters=None selects every row.
C22_SliceTableFilters ==
    db_op = "slice_table" =>
        /\ db_err = "none"
        /\ db_result = Absent <=> Satisfying = {}
        /\ Satisfying # {} => db_result = Frame(Satisfying)
        /\ db_arg = NoFilter => Satisfying = db_store[ApiTable]

\* a list of two mappings selected a row through its second mapping and
\* left out a stored row that passes only one test of its first mapping
C22_Witness ==
    /\ db_op = "slice_table"
    /\ db_arg = OrFilter
    /\ db_result # Absent
    /\ \E r \in db_result.rows : r.date = 4
    /\ \E r \in db_store[ApiTable] \ db_result.rows :
           r.date = 3 /\ r.close = 1

\* a call whose records argument is neither mappings nor a DataFrame raises
\* TypeError and leaves the store and the session as they were
WrongTypeContract ==
    (/\ db_op' \in {"insert_record", "bulk_insert_records"}
     /\ db_arg' = <<>>) =>
        /\ db_err' = "TypeError"
        /\ db_store' = db_store
        /\ db_session' = db_session

\* C26: bulk_insert_records(name, records) with records that is neither a
\* list of mappings nor a DataFrame raises TypeError and inserts nothing,
\* as insert_record does for a record that is neither a mapping nor a
\* DataFrame.
C26_WrongTypeRaises == [][WrongTypeContract]_vars

\* C30: rollback() discards every row inserted through insert_record or
\* bulk_insert_records since the last commit(), mappings or DataFrame:
\* after rollback every table holds what it held at the last commit.
C30_RollbackDiscards ==
    db_op = "rollback" =>
        /\ db_store = db_committed
        /\ db_session.txn = db_committed
        /\ db_session.new = <<>>

\* C12: replace_table(name, records) completes without error and leaves
\* the named table holding exactly the given records: the rows it had are
\* removed and every record is inserted.
C12_ReplaceTable ==
    db_op = "replace_table" =>
        /\ db_err = "none"
        /\ db_session.txn[ApiTable] =
               {RowOf(ApiTable, db_arg[k]) : k \in 1..Len(db_arg)}

\* the database a run starts from: the listed securities, or AMD alone, and
\* for each symbol no prices_log row or one
InitMain ==
    /\ \E listed \in {Listing, {r \in Listing : r.symbol = "AMD"}},
          refreshed \in SUBSET {0},
          logged \in [{Symbols[k] : k \in 1..Len(Symbols)} ->
                         LogDates \cup {NULL}] :
           db_store = [t \in Tables |->
               CASE t = "securities" -> listed
                 [] t = "prices_log" ->
                        {[symbol |-> s, min_date |-> logged[s],
                          max_date |-> logged[s], update_dt |-> 0,
                          check_dt |-> 0] :
                             s \in {x \in DOMAIN logged : logged[x] # NULL}}
                 [] t = "exchanges" ->
                        IF refreshed = {} THEN {} ELSE ExchangeListing
                 [] t = "update_log" ->
                        {[table |-> tables_to_update[k], update_dt |-> d,
                          update_type |-> "full", new_records |-> 1] :
                             k \in 1..2, d \in refreshed}
                 [] OTHER -> {}]
    /\ db_session = EmptySession(db_store)
    /\ db_err = "none"
    /\ db_result = Absent
    /\ db_op = "none"
    /\ db_arg = <<>>
    /\ db_probe = NoProbe
    /\ db_committed = db_store
    /\ MainIdle
    /\ SourceIdle
    /\ PagingIdle
    /\ CatalogIdle
    /\ TimetrackIdle
    /\ BackoffIdle
    /\ ShiftIdle
    /\ LogIdle

NextMain ==
    \/ MainStart
    \/ SelectWindow
    \/ FetchReturns
    \/ FetchLimitError
    \/ FetchServerError
    \/ StoreRecords
    \/ Fallback
    \/ LogUpdate

SpecMain == InitMain /\ [][NextMain]_vars

\* every call of get_prices ends: it returns or it raises
SpecMainLive ==
    SpecMain /\ WF_vars(FetchReturns \/ FetchLimitError \/ FetchServerError)

\* ---- claims about knowsec.py, checked under SpecMain ----

\* C8: when the bulk insert of a ticker's new price rows hits a primary-key
\* collision, the fallback (rollback, then insert_record and commit row by
\* row, rollback on each colliding row) ends with every row that was there
\* before unmodified, every submitted row with a new key committed, nothing
\* else written and nothing left pending, and the loop goes on to the log
\* update.
C8_FallbackKeepsAndAdds ==
    main_fell.done =>
        LET keys == KeysOf("security_prices", main_fell.before)
            added == {main_fell.batch[k] : k \in
                         {j \in 1..Len(main_fell.batch) :
                              KeyOf("security_prices", main_fell.batch[j])
                                  \notin keys}}
        IN /\ main_pc = "log"
           /\ main_err = "none"
           /\ db_store["security_prices"] = main_fell.before \cup added
           /\ db_session = EmptySession(db_store)

\* a batch with a colliding row that differs from the stored one, and a
\* new row
C8_Witness ==
    /\ main_fell.done
    /\ main_pc = "log"
    /\ \E j, k \in 1..Len(main_fell.batch) :
           /\ KeyOf("security_prices", main_fell.batch[j])
                  \in KeysOf("security_prices", main_fell.before)
           /\ main_fell.batch[j] \notin main_fell.before
           /\ main_fell.batch[j] \notin db_store["security_prices"]
           /\ KeyOf("security_prices", main_fell.batch[k])
                  \notin KeysOf("security_prices", main_fell.before)
           /\ main_fell.batch[k] \in db_store["security_prices"]

\* C9: for each ticker the fetch window follows from prices_log and the
\* last business day: no log row gives [last day - 50 years, last day];
\* max_date equal to the last business day gives no window; max_date one
\* business day before it gives exactly [last day, last day].
C9_FetchWindow ==
    main_window.made =>
        LET recs == LogRowsOf(existing_securities, main_window.symbol)
            fifty_years == 50 * 365
        IN /\ recs = {} =>
                  /\ main_window.fetch
                  /\ main_window.start = last_day - fifty_years
                  /\ main_window.end = last_day
           /\ \A r \in recs :
                  /\ r.max_date = last_day => ~main_window.fetch
                  /\ BusDayAdd(r.max_date, 1) = last_day =>
                         /\ main_window.fetch
                         /\ main_window.start = last_day
                         /\ main_window.end = last_day

\* C10: from a securities table holding AMD alone and an empty prices_log,
\* a run for which the vendor has the prices ends without error, with 3
\* rows for AMD in security_prices and one prices_log row for AMD whose
\* min_date and max_date are the least and greatest date of those rows.
C10_FirstRun ==
    (/\ main_pc \in {"done", "crashed"}
     /\ main_err # "TypeError"
     /\ {r.symbol : r \in securities} = {"AMD"}
     /\ existing_securities = Absent) =>
        LET rows == {r \in db_store["security_prices"] : r.symbol = "AMD"}
            logs == {r \in db_store["prices_log"] : r.symbol = "AMD"}
        IN /\ main_err = "none"
           /\ Cardinality(rows) = 3
           /\ Cardinality(logs) = 1
           /\ \A l \in logs :
                  /\ \E r \in rows : r.date = l.min_date
                  /\ \E r \in rows : r.date = l.max_date
                  /\ \A r \in rows :
                         l.min_date <= r.date /\ r.date <= l.max_date

\* C13: in every run a reference table (exchanges, securities) is refreshed
\* if and only if update_log held no 'full' entry for it when the run
\* started, or the latest such entry was older than 604,800 seconds, however
\* many earlier entries there are.
C13_RefreshIffStale ==
    main_run > 0 =>
        \A k \in 1..Len(tables_to_update) :
            LET a_table == tables_to_update[k]
                full == {r \in main_refresh.log :
                             r.table = a_table /\ r.update_type = "full"}
                latest == CHOOSE r \in full :
                              \A q \in full : q.update_dt <= r.update_dt
            IN (a_table \in main_refresh.done) <=>
                   (full = {} \/ (today - latest.update_dt) * Day > 604800)

\* C14: the retry loop of a ticker's price fetch ends after a bounded
\* number of attempts even when the vendor raises its server error on every
\* call: the fetch of the ticker is left and the run goes on.
C14_RetryLoopEnds == (main_pc = "fetch") ~> (main_pc # "fetch")

\* the symbols of the run that the loop has finished with
Processed ==
    {r.symbol : r \in securities} \ {secpbar[k] : k \in 1..Len(secpbar)}

\* C15: in every run, every ticker the loop has processed has a prices_log
\* row whose check_dt is the time of this run, whether or not new price rows
\* were found for it.
C15_CheckDtEveryRun ==
    main_pc \in {"select", "fetch", "store", "fallback", "log", "done"} =>
        \A symbol \in Processed :
            \E r \in db_store["prices_log"] :
                r.symbol = symbol /\ r.check_dt = today

\* C16: once get_prices has raised the limit error for a ticker, the run is
\* over with an error: no ticker is processed any more and nothing is
\* written, neither price rows nor a prices_log change.
C16_LimitEndsRun ==
    main_limit.hit =>
        /\ main_pc = "crashed"
        /\ Head(secpbar) = main_limit.symbol
        /\ db_store = main_limit.store
        /\ db_session = EmptySession(db_store)

\* C28: after every run, the max_date of each prices_log row (here: of each
\* row the run wrote) is the greatest date among the committed
\* security_prices rows of its ticker.
C28_MaxDateIsGreatest ==
    main_pc = "done" =>
        \A l \in db_store["prices_log"] :
            l.update_dt = today =>
                LET rows == {r \in db_store["security_prices"] :
                                 r.symbol = l.symbol}
                IN /\ \E r \in rows : r.date = l.max_date
                   /\ \A r \in rows : r.date <= l.max_date

\* the steps of the loop that may follow one another
StepOrder ==
    {<<"select", "fetch">>, <<"select", "store">>,
     <<"fetch", "fetch">>, <<"fetch", "store">>,
     <<"store", "fallback">>, <<"store", "log">>,
     <<"fallback", "log">>,
     <<"store", "select">>, <<"store", "done">>,
     <<"log", "select">>, <<"log", "done">>}

\* a step of the loop: what it may do to the position, the symbols to go
\* and the committed rows
OrderedStep ==
    main_pc \in {"select", "fetch", "store", "fallback", "log"} =>
        /\ main_pc' = "crashed" \/ <<main_pc, main_pc'>> \in StepOrder
        /\ secpbar' \in {secpbar, Tail(secpbar)}
        /\ secpbar' # secpbar => main_pc \in {"store", "log"}
        /\ main_pc' = "fallback" =>
               \E k \in 1..Len(main_fell'.batch) :
                   KeyOf("security_prices", main_fell'.batch[k])
                       \in KeysOf("security_prices", main_fell'.before)
        /\ db_store["security_prices"] \subseteq db_store'["security_prices"]
        /\ \A r \in db_store["prices_log"] :
               r.symbol # Head(secpbar) => r \in db_store'["prices_log"]

\* C17: within a run the tickers are taken one at a time in order and the
\* steps of a ticker follow the order fetch, bulk insert, row-by-row
\* fallback (only after a collision), log update, commit; a step never
\* removes a committed price row or changes the log row of another ticker;
\* and when the loop turns to the next ticker nothing is left uncommitted.
C17_OrderAndCommit ==
    /\ [](main_pc = "select" => db_session = EmptySession(db_store))
    /\ [][OrderedStep]_vars

\* the loop turns to the second ticker after the first one's prices and log
\* row were written in this run
C17_Witness ==
    /\ main_pc = "select"
    /\ \E symbol \in Processed :
           /\ \E r \in db_store["prices_log"] :
                  r.symbol = symbol /\ r.update_dt = today
           /\ \E r \in db_store["security_prices"] : r.symbol = symbol

InitSource ==
    /\ SourceIdle
    /\ PagingIdle
    /\ CatalogIdle
    /\ TimetrackIdle
    /\ BackoffIdle
    /\ ShiftIdle
    /\ LogIdle
    /\ DbIdle
    /\ MainIdle

NextSource ==
    \/ AvRetrieveData
    \/ AvRetrieveLatest
    \/ BcRetrieveData
    \/ BcRetrieveLatest

SpecSource == InitSource /\ [][NextSource]_vars

\* ---- claims about dfu.py, checked under SpecSource ----

\* C11: Barchart.retrieve_data with a collection of more than 25 symbols
\* raises TooManySymbolsError before any HTTP request is issued, leaving
\* access_log and the last request object as they were; a collection of 25
\* symbols or fewer, or a single string, is not rejected.
C11_TooManySymbols ==
    [][(ds_clock' # ds_clock /\ ds_call'.source = "Barchart") =>
          IF /\ ds_call'.symbol.type = "list"
             /\ Len(ds_call'.symbol.items) > 25
          THEN /\ ds_call'.err = "TooManySymbolsError"
               /\ ds_http' = ds_http
               /\ access_log' = access_log
               /\ req_object' = req_object
          ELSE /\ ds_call'.err # "TooManySymbolsError"
               /\ ds_http' = ds_http + 1]_vars

\* 26 symbols refused on an instance that has served requests before
C11_Witness ==
    /\ ds_call.source = "Barchart"
    /\ ds_call.method = "retrieve_data"
    /\ ds_call.symbol.type = "list"
    /\ Len(ds_call.symbol.items) = 26
    /\ ds_call.err = "TooManySymbolsError"
    /\ access_log["Barchart"].total_requests > 0
    /\ req_object["Barchart"] > 0

\* C18: AlphaVantage._retrieve, given an HTTP-ok payload with fewer than
\* two top-level keys, ends by raising one classified error: InvalidCallError
\* for an 'Error Message' that contains 'invalid api call', RateLimitError
\* for an 'Information' that contains 'higher api call', GeneralCallError
\* for every other such payload.
C18_ClassifiedError ==
    (/\ ds_call.source = "AlphaVantage"
     /\ ds_call.reached
     /\ ds_call.payload.ok
     /\ Len(ds_call.payload.keys) < 2) =>
        ds_call.err =
            IF /\ ds_call.payload.keys = <<"Error Message">>
               /\ Finds(ds_call.payload.msg, <<"invalid", "api", "call">>)
            THEN "InvalidCallError"
            ELSE IF /\ ds_call.payload.keys = <<"Information">>
                    /\ Finds(ds_call.payload.msg, <<"higher", "api", "call">>)
            THEN "RateLimitError"
            ELSE "GeneralCallError"

\* C19: for each instance, access_log.total_requests is the number of
\* retrieve_data / retrieve_latest calls that returned, and last_request
\* the stamp of the latest of them; a call that raises leaves access_log
\* as it was.
C19_AccessLogCountsReturns ==
    \A a \in Adapters :
        /\ access_log[a].total_requests = ds_hist[a].returned
        /\ access_log[a].last_request = ds_hist[a].last

InitPaging ==
    /\ PagingIdle
    /\ CatalogIdle
    /\ TimetrackIdle
    /\ SourceIdle
    /\ BackoffIdle
    /\ ShiftIdle
    /\ LogIdle
    /\ DbIdle
    /\ MainIdle

NextPaging ==
    \/ Intrinio2Call
    \/ EndpointGen
    \/ ExecuteEndpoint
    \/ Intrinio2Return

SpecPaging == InitPaging /\ [][NextPaging]_vars

\* ---- claims about knowsec2.py and intriniov2.py, checked under SpecPaging ----

\* C20: a call of get_exchanges, get_securities or get_prices_exchange that
\* the vendor does not fail returns the records of all pages, in order and
\* each once: the first request carries no cursor, every later request the
\* cursor of the response before it, and the requests stop with the page
\* whose next_page is null.
C20_AllPagesInOrder ==
    (pg_pc = "done" /\ pg_result.err # "ApiException") =>
        /\ pg_result.err = "none"
        /\ pg_result.rows = [k \in 1..pg_total |-> k]
        /\ Len(pg_sent) = (pg_total + pg_size - 1) \div pg_size
        /\ pg_sent[1] \in {NoNextPage, EmptyPage}
        /\ \A k \in 2..Len(pg_sent) : pg_sent[k] = (k - 1) * pg_size

\* ---- the catalog of database.py ----
OthersIdle ==
    /\ BackoffIdle
    /\ ShiftIdle
    /\ LogIdle
    /\ DbIdle
    /\ MainIdle
    /\ SourceIdle
    /\ PagingIdle

InitCatalog ==
    /\ CatalogIdle
    /\ TimetrackIdle
    /\ OthersIdle

NextCatalog ==
    \/ CreateAllTables
    \/ DeleteTable
    \/ FrameToSql
    \/ TableMap
    \/ TableClass

SpecCatalog == InitCatalog /\ [][NextCatalog]_vars

\* C23: table_map(name) and table_class(name) raise NoTableError for every
\* name that cannot be resolved (in neither the declared catalog nor the
\* store, declared but not created in the store, in the store but not
\* declared) and resolve every declared table that exists in the store.
C23_UnresolvedRaisesNoTable ==
    cat_call.op \in {"table_map", "table_class"} =>
        IF cat_call.tablename \in Tables \cap cat_tables
        THEN cat_call.err = "none"
        ELSE cat_call.err = "NoTableError"

\* ---- timetrack.py ----

\* Timetrack(initialize_time)
InitTimetrack ==
    /\ \E initialize_time \in BOOLEAN :
           tt_time = [tag \in Tags |->
                         IF tag = "root"
                         THEN [made |-> TRUE,
                               start |-> IF initialize_time THEN 0 ELSE NULL,
                               end |-> NULL]
                         ELSE [made |-> FALSE, start |-> NULL, end |-> NULL]]
    /\ tt_clock = 0
    /\ tt_ticks = 0
    /\ tt_call = [op |-> "none", tag |-> "root", err |-> "none",
                  ret |-> NULL]
    /\ CatalogIdle
    /\ OthersIdle

NextTimetrack ==
    \/ Tick
    \/ Now
    \/ ResetTime
    \/ NewTime
    \/ PauseTime
    \/ UnpauseTime
    \/ Elapsed
    \/ ElapsedSeconds
    \/ Execution

SpecTimetrack == InitTimetrack /\ [][NextTimetrack]_vars

\* a step of the clock, or a now, elapsed, pause_time or unpause_time call
PauseContract ==
    tt_call'.op \in {"tick", "now", "elapsed", "pause_time", "unpause_time"} =>
        /\ \A tag \in Tags :
               (/\ tt_time[tag].made
                /\ tt_time[tag].end # NULL
                /\ ~(tt_call'.op = "unpause_time" /\ tt_call'.tag = tag)) =>
                   /\ TimetrackNow(tt_time', tt_clock', tag) = tt_time[tag].end
                   /\ tt_time[tag].start # NULL =>
                          elapsed(tt_time', tt_clock', tag) =
                              tt_time[tag].end - tt_time[tag].start
                   /\ (tt_call'.op = "now" /\ tt_call'.tag = tag) =>
                          tt_call'.ret = tt_time[tag].end
                   /\ (/\ tt_call'.op = "elapsed"
                       /\ tt_call'.tag = tag
                       /\ tt_time[tag].start # NULL) =>
                          tt_call'.ret = tt_time[tag].end - tt_time[tag].start
        /\ (tt_call'.op = "unpause_time" /\ tt_call'.err = "none") =>
               TimetrackNow(tt_time', tt_clock', tt_call'.tag) = tt_clock'
        /\ \A other \in Tags \ {tt_call'.tag} : tt_time'[other] = tt_time[other]

\* C24: from pause_time(tag) until the next unpause_time(tag), now(tag) and
\* elapsed(tag) return the same value however far the clock advances and
\* however often pause_time(tag) is repeated; after unpause_time(tag),
\* now(tag) is the live clock again; none of these operations changes the
\* start or end of another tag.
C24_PauseFreezes == [][PauseContract]_vars

\* pause_time was repeated after the clock had moved on and kept the instant
\* of the first pause, while another tag runs live
C24_Witness ==
    /\ tt_call.op = "pause_time"
    /\ tt_call.err = "none"
    /\ tt_time[tt_call.tag].end # NULL
    /\ tt_time[tt_call.tag].end < tt_clock
    /\ \E other \in Tags \ {tt_call.tag} :
           tt_time[other].made /\ tt_time[other].end = NULL

\* C25: elapsed_seconds(tag) and execution(tag)['seconds'] return the total
\* number of seconds between the start of the tag and now(tag) for every
\* span, spans of one day or longer included (1 day and 5 seconds: 86405).
C25_TotalSeconds ==
    (tt_call.op \in {"elapsed_seconds", "execution"} /\ tt_call.err = "none") =>
        tt_call.ret =
            TimetrackNow(tt_time, tt_clock, tt_call.tag)
                - tt_time[tt_call.tag].start

====
